---------------------------- MODULE Spec2Model ----------------------------
(***************************************************************************)
(* A model of the succinct structures of pfc (include/pfc/succinct.hpp):   *)
(* the rank/select bit vector (BlockRankSupport, SuccinctBitVector) and    *)
(* the compressed integer set (RoaringBitmap), together with the bit       *)
(* writer/reader and the codecs they serialise with (core.hpp,             *)
(* codecs.hpp).                                                            *)
(*                                                                         *)
(* The code's sizes are powers of two (64-bit words, 512-bit blocks,       *)
(* 65536-bit superblocks, 16-bit low values, a 4096 array threshold).  The *)
(* model keeps every formula of the code and instantiates the sizes with   *)
(* small exponents, so that TLC can enumerate the structures.              *)
(***************************************************************************)
EXTENDS Integers, Sequences, FiniteSets, TLC

(***************************************************************************)
(* Sizes.  Scaled instances of the code's constants.                       *)
(***************************************************************************)
\* log2 of the word width (code: 64-bit words, shift 6)
WORD_SHIFT == 1
\* log2 of BLOCK_SIZE (code: BLOCK_SHIFT = 9)
BLOCK_SHIFT == 2
\* log2 of SUPERBLOCK_SIZE (code: SUPERBLOCK_SHIFT = 16)
SUPERBLOCK_SHIFT == 3
\* width of uint16_t (code: 16)
UINT16_BITS == 4
\* longest bit vector constructed
MaxBits == 9

WORD_BITS == 2 ^ WORD_SHIFT
WORD_MOD == 2 ^ WORD_BITS
SUPERBLOCK_SIZE == 2 ^ SUPERBLOCK_SHIFT
BLOCK_SIZE == 2 ^ BLOCK_SHIFT
BLOCKS_PER_SUPERBLOCK == SUPERBLOCK_SIZE \div BLOCK_SIZE
UINT16_MOD == 2 ^ UINT16_BITS
UINT32_BITS == 2 * UINT16_BITS
UINT32_MOD == 2 ^ UINT32_BITS
\* bits per byte of the bit writer / reader
BYTE_BITS == 8

\* the value an out-of-range read of a vector is given (never a valid result)
OOB == -1

(***************************************************************************)
(* Helpers: 0-indexed vectors, machine words.                              *)
(***************************************************************************)
Min(a, b) == IF a < b THEN a ELSE b

\* v[i] of a std::vector, 0-indexed; OOB outside the vector
At(v, i) == IF i >= 0 /\ i < Len(v) THEN v[i + 1] ELSE OOB

\* v[i] = x
Put(v, i, x) == [v EXCEPT ![i + 1] = x]

\* std::vector::resize(n): keeps the prefix, value-initialises new elements
Resize(v, n) == [i \in 1..n |-> IF i <= Len(v) THEN v[i] ELSE 0]

\* (word >> i) & 1
BitOf(word, i) == (word \div (2 ^ i)) % 2

RECURSIVE popcountll(_)
popcountll(word) == IF word = 0 THEN 0 ELSE (word % 2) + popcountll(word \div 2)

\* ceil(n / d)
CeilDiv(n, d) == (n + d - 1) \div d

(***************************************************************************)
(* BlockRankSupport: the two-level rank index.  An index is a record       *)
(* [superblocks, blocks, num_bits]; its bits_ pointer is the `bits`        *)
(* argument of the operators (the words it reads).                         *)
(***************************************************************************)
\* sum of __builtin_popcountll(bits_[w]) for w in [w, word_end); OOB if a
\* word outside the array is read
RECURSIVE PopWords(_, _, _)
PopWords(bits, w, word_end) ==
    IF w >= word_end THEN 0
    ELSE IF At(bits, w) = OOB THEN OOB
    ELSE LET rest == PopWords(bits, w + 1, word_end)
         IN  IF rest = OOB THEN OOB ELSE popcountll(At(bits, w)) + rest

\* a plausible slip in build: superblock_rank is not reset when a superblock
\* starts
RECURSIVE build_loop_no_reset(_, _, _, _)
build_loop_no_reset(bits, num_bits, i, acc) ==
    IF i >= CeilDiv(num_bits, BLOCK_SIZE) THEN acc
    ELSE
      LET bit_start == i * BLOCK_SIZE
          superblock_idx == bit_start \div SUPERBLOCK_SIZE
          new_superblock == (bit_start % SUPERBLOCK_SIZE = 0)
          sbs == IF new_superblock
                 THEN Put(acc.superblocks, superblock_idx, acc.total_rank % UINT32_MOD)
                 ELSE acc.superblocks
          superblock_rank == acc.superblock_rank
          bls == Put(acc.blocks, i, superblock_rank % UINT16_MOD)
          word_start == bit_start \div WORD_BITS
          word_end == Min((bit_start + BLOCK_SIZE) \div WORD_BITS,
                          CeilDiv(num_bits, WORD_BITS))
          block_rank == PopWords(bits, word_start, word_end)
      IN  build_loop_no_reset(bits, num_bits, i + 1,
                     [superblocks |-> sbs, blocks |-> bls,
                      total_rank |-> acc.total_rank + block_rank,
                      superblock_rank |-> superblock_rank + block_rank])

\* the for loop of build over the blocks i, i+1, ...; acc carries
\* total_rank, superblock_rank and the two arrays
RECURSIVE build_loop(_, _, _, _)
build_loop(bits, num_bits, i, acc) ==
    IF i >= CeilDiv(num_bits, BLOCK_SIZE) THEN acc
    ELSE
      LET bit_start == i * BLOCK_SIZE
          superblock_idx == bit_start \div SUPERBLOCK_SIZE
          new_superblock == (bit_start % SUPERBLOCK_SIZE = 0)
          sbs == IF new_superblock
                 THEN Put(acc.superblocks, superblock_idx, acc.total_rank % UINT32_MOD)
                 ELSE acc.superblocks
          superblock_rank == IF new_superblock THEN 0 ELSE acc.superblock_rank
          bls == Put(acc.blocks, i, superblock_rank % UINT16_MOD)
          word_start == bit_start \div WORD_BITS
          word_end == Min((bit_start + BLOCK_SIZE) \div WORD_BITS,
                          CeilDiv(num_bits, WORD_BITS))
          block_rank == PopWords(bits, word_start, word_end)
      IN  build_loop(bits, num_bits, i + 1,
                     [superblocks |-> sbs, blocks |-> bls,
                      total_rank |-> acc.total_rank + block_rank,
                      superblock_rank |-> superblock_rank + block_rank])

\* BlockRankSupport::build on an index holding the arrays of `old`
build(old, bits, num_bits) ==
    LET num_superblocks == CeilDiv(num_bits, SUPERBLOCK_SIZE)
        num_blocks == CeilDiv(num_bits, BLOCK_SIZE)
        acc == build_loop(bits, num_bits, 0,
                          [superblocks |-> Resize(old.superblocks, num_superblocks + 1),
                           blocks |-> Resize(old.blocks, num_blocks + 1),
                           total_rank |-> 0, superblock_rank |-> 0])
    IN  [superblocks |-> Put(acc.superblocks, num_superblocks,
                             acc.total_rank % UINT32_MOD),
         blocks |-> acc.blocks,
         num_bits |-> num_bits]

\* a plausible slip in rank_total: the rank at the start of the last
\* superblock instead of the total
rank_total_last_start(rs) ==
    At(rs.superblocks, CeilDiv(rs.num_bits, SUPERBLOCK_SIZE) - 1)

\* the pos >= num_bits_ branch of rank: the total rank
rank_total(rs) ==
    LET num_superblocks == CeilDiv(rs.num_bits, SUPERBLOCK_SIZE)
    IN  At(rs.superblocks, num_superblocks)

\* a plausible slip in rank: the bits of the partial word are not counted
rank_whole_words(rs, bits, pos) ==
    IF pos = 0 THEN 0
    ELSE IF pos >= rs.num_bits THEN rank_total(rs)
    ELSE
      LET superblock_idx == pos \div SUPERBLOCK_SIZE
          block_idx == pos \div BLOCK_SIZE
          word_idx == pos \div WORD_BITS
          bit_offset == pos % WORD_BITS
          block_start == (pos \div BLOCK_SIZE) * BLOCK_SIZE
          word_start == block_start \div WORD_BITS
          sb == At(rs.superblocks, superblock_idx)
          bl == At(rs.blocks, block_idx)
          whole == PopWords(bits, word_start, word_idx)
          part == 0
      IN  IF OOB \in {sb, bl, whole, part} THEN OOB
          ELSE sb + bl + whole + part

\* BlockRankSupport::rank
rank(rs, bits, pos) ==
    IF pos = 0 THEN 0
    ELSE IF pos >= rs.num_bits THEN rank_total(rs)
    ELSE
      LET superblock_idx == pos \div SUPERBLOCK_SIZE
          block_idx == pos \div BLOCK_SIZE
          word_idx == pos \div WORD_BITS
          bit_offset == pos % WORD_BITS
          block_start == (pos \div BLOCK_SIZE) * BLOCK_SIZE
          word_start == block_start \div WORD_BITS
          sb == At(rs.superblocks, superblock_idx)
          bl == At(rs.blocks, block_idx)
          whole == PopWords(bits, word_start, word_idx)
          part == IF bit_offset > 0
                  THEN IF At(bits, word_idx) = OOB THEN OOB
                       ELSE popcountll(At(bits, word_idx) % (2 ^ bit_offset))
                  ELSE 0
      IN  IF OOB \in {sb, bl, whole, part} THEN OOB
          ELSE sb + bl + whole + part

\* a plausible slip in select_search: < for <= in the comparison
RECURSIVE select_search_strict(_, _, _, _)
select_search_strict(sbs, k, left, right) ==
    IF left >= right THEN left
    ELSE LET mid == left + (right - left) \div 2
         IN  IF At(sbs, mid) < k
             THEN select_search_strict(sbs, k, mid + 1, right)
             ELSE select_search_strict(sbs, k, left, mid)

\* the binary search of select over superblocks_
RECURSIVE select_search(_, _, _, _)
select_search(sbs, k, left, right) ==
    IF left >= right THEN left
    ELSE LET mid == left + (right - left) \div 2
         IN  IF At(sbs, mid) <= k
             THEN select_search(sbs, k, mid + 1, right)
             ELSE select_search(sbs, k, left, mid)

\* a plausible slip in select_bit: the word's first set bit, whatever
\* remaining is
RECURSIVE select_bit_first(_, _, _)
select_bit_first(word, remaining, i) ==
    IF i >= WORD_BITS THEN OOB
    ELSE IF BitOf(word, i) = 1 THEN i
    ELSE select_bit_first(word, remaining, i + 1)

\* the for-i loop of select over the bits of the word holding the k-th one
\* (entered with remaining < popcount(word), so it returns inside the word)
RECURSIVE select_bit(_, _, _)
select_bit(word, remaining, i) ==
    IF i >= WORD_BITS THEN OOB
    ELSE IF BitOf(word, i) = 1
    THEN IF remaining = 0 THEN i ELSE select_bit(word, remaining - 1, i + 1)
    ELSE select_bit(word, remaining, i + 1)

\* the word loop of select within one block
RECURSIVE select_words(_, _, _, _)
select_words(bits, w, word_end, remaining) ==
    IF w >= word_end THEN [found |-> FALSE, val |-> remaining]
    ELSE IF At(bits, w) = OOB THEN [found |-> TRUE, val |-> OOB]
    ELSE LET popcount == popcountll(At(bits, w))
         IN  IF remaining < popcount
             THEN LET i == select_bit(At(bits, w), remaining, 0)
                  IN  [found |-> TRUE,
                       val |-> IF i = OOB THEN OOB ELSE w * WORD_BITS + i]
             ELSE select_words(bits, w + 1, word_end, remaining - popcount)

\* the block loop of select within the superblock
RECURSIVE select_blocks(_, _, _, _, _)
select_blocks(rs, bits, b, block_end, remaining) ==
    IF b >= block_end THEN rs.num_bits
    ELSE LET bit_start == b * BLOCK_SIZE
             word_start == bit_start \div WORD_BITS
             word_end == Min((bit_start + BLOCK_SIZE) \div WORD_BITS,
                             CeilDiv(rs.num_bits, WORD_BITS))
             r == select_words(bits, word_start, word_end, remaining)
         IN  IF r.found THEN r.val
             ELSE select_blocks(rs, bits, b + 1, block_end, r.val)

\* BlockRankSupport::select.  superblocks_.size() - 1 wraps on an empty
\* array (an index never built): an out-of-range read.  k - superblocks_[..]
\* wraps when the entry exceeds k; the wrapped count is never reached, so the
\* scan ends with num_bits_.
select(rs, bits, k) ==
    IF Len(rs.superblocks) = 0 THEN OOB
    ELSE
      LET left == select_search(rs.superblocks, k, 0, Len(rs.superblocks) - 1)
          superblock_idx == IF left > 0 THEN left - 1 ELSE 0
          block_start == superblock_idx * (SUPERBLOCK_SIZE \div BLOCK_SIZE)
          block_end == Min(block_start + BLOCKS_PER_SUPERBLOCK, Len(rs.blocks))
      IN  IF At(rs.superblocks, superblock_idx) > k THEN rs.num_bits
          ELSE select_blocks(rs, bits, block_start, block_end,
                             k - At(rs.superblocks, superblock_idx))

(***************************************************************************)
(* Bit writer / reader (core.hpp) and the codecs (codecs.hpp).  A sink is  *)
(* the sequence of bits written; a source is [buf, pos]: the bits of the   *)
(* buffer and the number of bits consumed.                                 *)
(***************************************************************************)
\* the result of a decode that never returns (its loop does not end)
Diverges(src) == [ok |-> FALSE, val |-> 0, src |-> src]

\* the result of a step that returned val and left the source at src
Ret(val, src) == [ok |-> TRUE, val |-> val, src |-> src]

\* BitWriter::align then bytes_written(): the buffer holds whole bytes, the
\* last one padded with zero bits
align(sink) ==
    sink \o [i \in 1..((BYTE_BITS - (Len(sink) % BYTE_BITS)) % BYTE_BITS) |-> 0]

\* BitReader over a buffer
BitReader(buf) == [buf |-> buf, pos |-> 0]

\* BitReader::read: false at the end of the buffer, without advancing
read(src) ==
    IF src.pos >= Len(src.buf) THEN Ret(0, src)
    ELSE Ret(src.buf[src.pos + 1], [src EXCEPT !.pos = @ + 1])

\* msb_position: -1 for 0, else the index of the highest set bit
RECURSIVE msb_position(_)
msb_position(x) == IF x = 0 THEN -1 ELSE 1 + msb_position(x \div 2)

\* EliasGamma::encode of a uint32_t
EliasGamma_encode(value) ==
    LET v == (value + 1) % UINT32_MOD
        len == msb_position(v) + 1
    IN  [i \in 1..(len - 1) |-> 0] \o [i \in 1..len |-> BitOf(v, len - i)]

\* the while (!source.read()) loop of EliasGamma::decode: at the end of the
\* buffer every read is false and the loop never ends
RECURSIVE gamma_zeros(_, _)
gamma_zeros(src, zeros) ==
    IF src.pos >= Len(src.buf) THEN Diverges(src)
    ELSE LET r == read(src)
         IN  IF r.val = 1 THEN Ret(zeros, r.src)
             ELSE gamma_zeros(r.src, zeros + 1)

\* the for loop of EliasGamma::decode reading `zeros` more bits into a uint32_t
RECURSIVE gamma_value(_, _, _)
gamma_value(src, value, zeros) ==
    IF zeros = 0 THEN Ret(value, src)
    ELSE LET r == read(src)
         IN  gamma_value(r.src, (value * 2 + r.val) % UINT32_MOD, zeros - 1)

\* EliasGamma::decode<uint32_t>
EliasGamma_decode(src) ==
    LET z == gamma_zeros(src, 0)
    IN  IF ~z.ok THEN z
        ELSE LET v == gamma_value(z.src, 1, z.val)
             IN  Ret((v.val + UINT32_MOD - 1) % UINT32_MOD, v.src)

\* Fixed<Width>::encode: Width bits, least significant first
Fixed_encode(Width, value) == [i \in 1..Width |-> BitOf(value, i - 1)]

\* a plausible slip in Fixed<Width>::decode: the bits taken most
\* significant first
RECURSIVE Fixed_decode_msb_first(_, _, _, _)
Fixed_decode_msb_first(Width, src, i, value) ==
    IF i >= Width THEN Ret(value, src)
    ELSE LET r == read(src)
         IN  Fixed_decode_msb_first(Width, r.src, i + 1, value * 2 + r.val)

\* Fixed<Width>::decode
RECURSIVE Fixed_decode_loop(_, _, _, _)
Fixed_decode_loop(Width, src, i, value) ==
    IF i >= Width THEN Ret(value, src)
    ELSE LET r == read(src)
         IN  Fixed_decode_loop(Width, r.src, i + 1, value + r.val * (2 ^ i))

Fixed_decode(Width, src) == Fixed_decode_loop(Width, src, 0, 0)

\* n consecutive values of one codec: encode each element of v in order
RECURSIVE EncodeEach(_, _)
EncodeEach(Enc(_), v) ==
    IF Len(v) = 0 THEN <<>> ELSE Enc(Head(v)) \o EncodeEach(Enc, Tail(v))

\* n consecutive values of one codec: decode n elements into a vector
RECURSIVE DecodeEach(_, _, _, _)
DecodeEach(Dec(_), src, n, out) ==
    IF n = 0 THEN Ret(out, src)
    ELSE LET r == Dec(src)
         IN  IF ~r.ok THEN r
             ELSE DecodeEach(Dec, r.src, n - 1, Append(out, r.val))

Gamma_enc(value) == EliasGamma_encode(value)
Gamma_dec(src) == EliasGamma_decode(src)
Fixed16_enc(value) == Fixed_encode(UINT16_BITS, value)
Fixed16_dec(src) == Fixed_decode(UINT16_BITS, src)
Word_enc(value) == Fixed_encode(WORD_BITS, value)
Word_dec(src) == Fixed_decode(WORD_BITS, src)

(***************************************************************************)
(* SuccinctBitVector.  A vector is the words bits_, the length num_bits_   *)
(* and its index rank_support_.                                            *)
(***************************************************************************)
\* a BlockRankSupport that was default-constructed: empty arrays; num_bits_
\* has no initialiser, n stands for whatever it holds
BlockRankSupport(n) == [superblocks |-> <<>>, blocks |-> <<>>, num_bits |-> n]

\* a plausible slip in the constructor: the unused bits of the last word are
\* not cleared
SuccinctBitVector_unmasked(num_bits, initial_value) ==
    LET words == [w \in 1..CeilDiv(num_bits, WORD_BITS) |->
                     IF initial_value THEN WORD_MOD - 1 ELSE 0]
    IN  IF FALSE
        THEN Put(words, Len(words) - 1,
                 At(words, Len(words) - 1) % (2 ^ (num_bits % WORD_BITS)))
        ELSE words

\* SuccinctBitVector(num_bits, initial_value): the words, the unused bits of
\* the last word cleared
SuccinctBitVector(num_bits, initial_value) ==
    LET words == [w \in 1..CeilDiv(num_bits, WORD_BITS) |->
                     IF initial_value THEN WORD_MOD - 1 ELSE 0]
    IN  IF num_bits % WORD_BITS # 0
        THEN Put(words, Len(words) - 1,
                 At(words, Len(words) - 1) % (2 ^ (num_bits % WORD_BITS)))
        ELSE words

\* operator[] / test
test(bits, pos) == BitOf(At(bits, pos \div WORD_BITS), pos % WORD_BITS) = 1

\* a plausible slip in set: the word is assigned the mask, not or-ed with it
set_assign(bits, pos, value) ==
    LET word_idx == pos \div WORD_BITS
        bit_idx == pos % WORD_BITS
        word == At(bits, word_idx)
    IN  IF value
        THEN Put(bits, word_idx, 2 ^ bit_idx)
        ELSE Put(bits, word_idx,
                 IF BitOf(word, bit_idx) = 1 THEN word - 2 ^ bit_idx ELSE word)

\* set(pos, value)
set(bits, pos, value) ==
    LET word_idx == pos \div WORD_BITS
        bit_idx == pos % WORD_BITS
        word == At(bits, word_idx)
    IN  IF value
        THEN Put(bits, word_idx,
                 IF BitOf(word, bit_idx) = 1 THEN word ELSE word + 2 ^ bit_idx)
        ELSE Put(bits, word_idx,
                 IF BitOf(word, bit_idx) = 1 THEN word - 2 ^ bit_idx ELSE word)

\* reset(pos)
reset(bits, pos) == set(bits, pos, FALSE)

\* flip(pos)
flip(bits, pos) ==
    LET word_idx == pos \div WORD_BITS
        bit_idx == pos % WORD_BITS
        word == At(bits, word_idx)
    IN  Put(bits, word_idx,
            IF BitOf(word, bit_idx) = 1 THEN word - 2 ^ bit_idx
            ELSE word + 2 ^ bit_idx)

\* SuccinctBitVector(std::initializer_list<bool>): zero words, set(i) for
\* every true element (the index is built by the caller of this operator)
RECURSIVE FromList(_, _, _)
FromList(list, i, bits) ==
    IF i >= Len(list) THEN bits
    ELSE FromList(list, i + 1, IF list[i + 1] THEN set(bits, i, TRUE) ELSE bits)

\* BlockRankSupport::encode
rs_encode(rs) ==
    EliasGamma_encode(rs.num_bits % UINT32_MOD)
    \o EliasGamma_encode(Len(rs.superblocks) % UINT32_MOD)
    \o EncodeEach(Gamma_enc, rs.superblocks)
    \o EncodeEach(Fixed16_enc, rs.blocks)

\* BlockRankSupport::decode: the blocks_ loop and the returned index
rs_decode_blocks(nb, sbs) ==
    LET bls == DecodeEach(Fixed16_dec, sbs.src, CeilDiv(nb.val, BLOCK_SIZE), <<>>)
    IN  IF ~bls.ok THEN bls
        ELSE Ret([superblocks |-> sbs.val, blocks |-> bls.val,
                  num_bits |-> nb.val], bls.src)

\* BlockRankSupport::decode: the superblocks_ loop
rs_decode_superblocks(nb, nsb) ==
    LET sbs == DecodeEach(Gamma_dec, nsb.src, nsb.val, <<>>)
    IN  IF ~sbs.ok THEN sbs ELSE rs_decode_blocks(nb, sbs)

\* BlockRankSupport::decode: the number of superblocks
rs_decode_counts(nb) ==
    LET nsb == EliasGamma_decode(nb.src)
    IN  IF ~nsb.ok THEN nsb ELSE rs_decode_superblocks(nb, nsb)

\* BlockRankSupport::decode
rs_decode(src) ==
    LET nb == EliasGamma_decode(src)
    IN  IF ~nb.ok THEN nb ELSE rs_decode_counts(nb)

\* SuccinctBitVector::encode
encode(v) ==
    EliasGamma_encode(v.num_bits % UINT32_MOD)
    \o EncodeEach(Word_enc, v.bits)
    \o rs_encode(v.rank_support)

\* SuccinctBitVector::decode: the index and the returned vector
decode_index(nb, words) ==
    LET rs == rs_decode(words.src)
    IN  IF ~rs.ok THEN rs
        ELSE Ret([bits |-> words.val, num_bits |-> nb.val,
                  rank_support |-> rs.val], rs.src)

\* SuccinctBitVector::decode: the words loop
decode_words(nb) ==
    LET words == DecodeEach(Word_dec, nb.src, CeilDiv(nb.val, WORD_BITS), <<>>)
    IN  IF ~words.ok THEN words ELSE decode_index(nb, words)

\* SuccinctBitVector::decode
decode(src) ==
    LET nb == EliasGamma_decode(src)
    IN  IF ~nb.ok THEN nb ELSE decode_words(nb)

(***************************************************************************)
(* RoaringBitmap::Chunk.  A chunk is a record [key, type, array, bitmap,   *)
(* runs]; a run is a pair <<start, length - 1>>.                           *)
(***************************************************************************)
\* ContainerType
Array == 0
Bitmap == 1
Run == 2

\* the array / bitmap threshold (code: 4096)
ARRAY_MAX_SIZE == 5
BITMAP_SIZE == 2 ^ UINT16_BITS
WORDS_PER_BITMAP == BITMAP_SIZE \div WORD_BITS
\* bytes per run and per array element in optimize
RUN_BYTES == 4
ARRAY_BYTES == 2
\* the bitmap footprint optimize compares with (code: 8192, the bytes of an
\* array at the threshold, 2 * 4096)
BITMAP_BYTES == ARRAY_BYTES * ARRAY_MAX_SIZE

\* std::vector::insert(begin() + i, x)
InsertAt(v, i, x) == SubSeq(v, 1, i) \o <<x>> \o SubSeq(v, i + 1, Len(v))

\* std::vector::erase(begin() + i)
EraseAt(v, i) == SubSeq(v, 1, i) \o SubSeq(v, i + 2, Len(v))

\* std::lower_bound on a sorted array: the index of the first element that
\* is not less than x (the size when there is none)
lower_bound(array, x) == Cardinality({i \in 1..Len(array) : array[i] < x})

\* bitmap[v / 64] |= 1 << (v % 64)
bitmap_set(bitmap, v) ==
    LET word == At(bitmap, v \div WORD_BITS)
    IN  IF BitOf(word, v % WORD_BITS) = 1 THEN bitmap
        ELSE Put(bitmap, v \div WORD_BITS, word + 2 ^ (v % WORD_BITS))

\* bitmap[v / 64] &= ~(1 << (v % 64))
bitmap_clear(bitmap, v) ==
    LET word == At(bitmap, v \div WORD_BITS)
    IN  IF BitOf(word, v % WORD_BITS) = 0 THEN bitmap
        ELSE Put(bitmap, v \div WORD_BITS, word - 2 ^ (v % WORD_BITS))

\* Chunk(k)
Chunk(k) == [key |-> k, type |-> Array, array |-> <<>>, bitmap |-> <<>>,
             runs |-> <<>>]

RECURSIVE bitmap_count(_, _)
bitmap_count(bitmap, w) ==
    IF w >= Len(bitmap) THEN 0
    ELSE popcountll(At(bitmap, w)) + bitmap_count(bitmap, w + 1)

RECURSIVE runs_count(_, _)
runs_count(runs, i) ==
    IF i >= Len(runs) THEN 0 ELSE At(runs, i)[2] + 1 + runs_count(runs, i + 1)

\* Chunk::cardinality
Chunk_cardinality(c) ==
    CASE c.type = Array -> Len(c.array)
      [] c.type = Bitmap -> bitmap_count(c.bitmap, 0)
      [] c.type = Run -> runs_count(c.runs, 0)
      [] OTHER -> 0

\* the loop of Chunk::contains over the runs
RECURSIVE runs_contains(_, _, _)
runs_contains(runs, i, low) ==
    IF i >= Len(runs) THEN FALSE
    ELSE LET start == At(runs, i)[1]
             len == At(runs, i)[2]
         IN  IF low >= start /\ low <= start + len THEN TRUE
             ELSE IF start > low THEN FALSE
             ELSE runs_contains(runs, i + 1, low)

\* Chunk::contains
Chunk_contains(c, low) ==
    CASE c.type = Array ->
           LET it == lower_bound(c.array, low)
           IN  it # Len(c.array) /\ At(c.array, it) = low
      [] c.type = Bitmap ->
           BitOf(At(c.bitmap, low \div WORD_BITS), low % WORD_BITS) = 1
      [] c.type = Run -> runs_contains(c.runs, 0, low)
      [] OTHER -> FALSE

\* the loops of convert_to_bitmap
RECURSIVE bitmap_of_array(_, _, _)
bitmap_of_array(array, i, bitmap) ==
    IF i >= Len(array) THEN bitmap
    ELSE bitmap_of_array(array, i + 1, bitmap_set(bitmap, At(array, i)))

RECURSIVE bitmap_of_run(_, _, _)
bitmap_of_run(v, last, bitmap) ==
    IF v > last THEN bitmap ELSE bitmap_of_run(v + 1, last, bitmap_set(bitmap, v))

RECURSIVE bitmap_of_runs(_, _, _)
bitmap_of_runs(runs, i, bitmap) ==
    IF i >= Len(runs) THEN bitmap
    ELSE bitmap_of_runs(runs, i + 1,
             bitmap_of_run(At(runs, i)[1], At(runs, i)[1] + At(runs, i)[2], bitmap))

\* Chunk::convert_to_bitmap
convert_to_bitmap(c) ==
    IF c.type = Bitmap THEN c
    ELSE
      LET zero == [w \in 1..WORDS_PER_BITMAP |-> 0]
      IN  CASE c.type = Array ->
                 [c EXCEPT !.bitmap = bitmap_of_array(c.array, 0, zero),
                           !.array = <<>>, !.type = Bitmap]
            [] c.type = Run ->
                 [c EXCEPT !.bitmap = bitmap_of_runs(c.runs, 0, zero),
                           !.runs = <<>>, !.type = Bitmap]
            [] OTHER -> [c EXCEPT !.bitmap = zero, !.type = Bitmap]

\* a plausible slip in array_of_word: the bit index taken one too high
RECURSIVE array_of_word_off_by_one(_, _, _, _)
array_of_word_off_by_one(word, w, bit, out) ==
    IF bit >= WORD_BITS THEN out
    ELSE array_of_word_off_by_one(word, w, bit + 1,
             IF BitOf(word, bit) = 1
             THEN Append(out, (w * WORD_BITS + bit + 1) % UINT16_MOD) ELSE out)

\* the loops of convert_to_array: set bits in ascending order
RECURSIVE array_of_word(_, _, _, _)
array_of_word(word, w, bit, out) ==
    IF bit >= WORD_BITS THEN out
    ELSE array_of_word(word, w, bit + 1,
             IF BitOf(word, bit) = 1
             THEN Append(out, (w * WORD_BITS + bit) % UINT16_MOD) ELSE out)

RECURSIVE array_of_bitmap(_, _, _)
array_of_bitmap(bitmap, w, out) ==
    IF w >= WORDS_PER_BITMAP THEN out
    ELSE array_of_bitmap(bitmap, w + 1, array_of_word(At(bitmap, w), w, 0, out))

RECURSIVE array_of_run(_, _, _)
array_of_run(v, last, out) ==
    IF v > last THEN out ELSE array_of_run(v + 1, last, Append(out, v % UINT16_MOD))

RECURSIVE array_of_runs(_, _, _)
array_of_runs(runs, i, out) ==
    IF i >= Len(runs) THEN out
    ELSE array_of_runs(runs, i + 1,
             array_of_run(At(runs, i)[1], At(runs, i)[1] + At(runs, i)[2], out))

\* a plausible slip in convert_to_array: the bitmap it leaves is not cleared
convert_to_array_keep_bitmap(c) ==
    IF c.type = Array THEN c
    ELSE CASE c.type = Bitmap ->
                [c EXCEPT !.array = array_of_bitmap(c.bitmap, 0, <<>>),
                          !.type = Array]
           [] c.type = Run ->
                [c EXCEPT !.array = array_of_runs(c.runs, 0, <<>>),
                          !.runs = <<>>, !.type = Array]
           [] OTHER -> [c EXCEPT !.array = <<>>, !.type = Array]

\* Chunk::convert_to_array
convert_to_array(c) ==
    IF c.type = Array THEN c
    ELSE CASE c.type = Bitmap ->
                [c EXCEPT !.array = array_of_bitmap(c.bitmap, 0, <<>>),
                          !.bitmap = <<>>, !.type = Array]
           [] c.type = Run ->
                [c EXCEPT !.array = array_of_runs(c.runs, 0, <<>>),
                          !.runs = <<>>, !.type = Array]
           [] OTHER -> [c EXCEPT !.array = <<>>, !.type = Array]

\* a plausible slip in potential_runs: run_len not reset when a run starts
RECURSIVE potential_runs_no_reset(_, _, _, _, _)
potential_runs_no_reset(array, i, run_start, run_len, out) ==
    IF i >= Len(array) THEN Append(out, <<run_start, run_len>>)
    ELSE IF At(array, i) = At(array, i - 1) + 1
    THEN potential_runs_no_reset(array, i + 1, run_start,
                                 (run_len + 1) % UINT16_MOD, out)
    ELSE potential_runs_no_reset(array, i + 1, At(array, i), run_len,
                                 Append(out, <<run_start, run_len>>))

\* the loop of optimize that collects the runs of a non-empty array
RECURSIVE potential_runs(_, _, _, _, _)
potential_runs(array, i, run_start, run_len, out) ==
    IF i >= Len(array) THEN Append(out, <<run_start, run_len>>)
    ELSE IF At(array, i) = At(array, i - 1) + 1
    THEN potential_runs(array, i + 1, run_start, (run_len + 1) % UINT16_MOD, out)
    ELSE potential_runs(array, i + 1, At(array, i), 0,
                        Append(out, <<run_start, run_len>>))

\* a plausible slip in Chunk_optimize: run_bytes <= array_bytes
Chunk_optimize_or_equal(c) ==
    LET card == Chunk_cardinality(c)
        c1 == IF c.type = Array /\ Len(c.array) > 0
              THEN LET runs == potential_runs(c.array, 1, At(c.array, 0), 0, <<>>)
                       run_bytes == Len(runs) * RUN_BYTES
                       array_bytes == Len(c.array) * ARRAY_BYTES
                   IN  IF run_bytes <= array_bytes /\ run_bytes < BITMAP_BYTES
                       THEN [c EXCEPT !.runs = runs, !.array = <<>>, !.type = Run]
                       ELSE c
              ELSE c
    IN  IF c1.type = Bitmap /\ card <= ARRAY_MAX_SIZE THEN convert_to_array(c1)
        ELSE c1

\* a plausible slip in Chunk_optimize: the runs are taken without the
\* byte-size comparison
Chunk_optimize_always_run(c) ==
    LET card == Chunk_cardinality(c)
        c1 == IF c.type = Array /\ Len(c.array) > 0
              THEN LET runs == potential_runs(c.array, 1, At(c.array, 0), 0, <<>>)
                       run_bytes == Len(runs) * RUN_BYTES
                       array_bytes == Len(c.array) * ARRAY_BYTES
                   IN  IF TRUE
                       THEN [c EXCEPT !.runs = runs, !.array = <<>>, !.type = Run]
                       ELSE c
              ELSE c
    IN  IF c1.type = Bitmap /\ card <= ARRAY_MAX_SIZE THEN convert_to_array(c1)
        ELSE c1

\* Chunk::optimize
Chunk_optimize(c) ==
    LET card == Chunk_cardinality(c)
        c1 == IF c.type = Array /\ Len(c.array) > 0
              THEN LET runs == potential_runs(c.array, 1, At(c.array, 0), 0, <<>>)
                       run_bytes == Len(runs) * RUN_BYTES
                       array_bytes == Len(c.array) * ARRAY_BYTES
                   IN  IF run_bytes < array_bytes /\ run_bytes < BITMAP_BYTES
                       THEN [c EXCEPT !.runs = runs, !.array = <<>>, !.type = Run]
                       ELSE c
              ELSE c
    IN  IF c1.type = Bitmap /\ card <= ARRAY_MAX_SIZE THEN convert_to_array(c1)
        ELSE c1

\* a plausible slip in Chunk_insert: the grown array is never converted
RECURSIVE Chunk_insert_no_convert(_, _)
Chunk_insert_no_convert(c, low) ==
    CASE c.type = Array ->
           LET it == lower_bound(c.array, low)
           IN  IF it = Len(c.array) \/ At(c.array, it) # low
               THEN [c EXCEPT !.array = InsertAt(c.array, it, low)]
               ELSE c
      [] c.type = Bitmap -> [c EXCEPT !.bitmap = bitmap_set(c.bitmap, low)]
      [] c.type = Run ->
           Chunk_optimize(Chunk_insert_no_convert(convert_to_array(c), low))
      [] OTHER -> c

\* Chunk::insert
RECURSIVE Chunk_insert(_, _)
Chunk_insert(c, low) ==
    CASE c.type = Array ->
           LET it == lower_bound(c.array, low)
           IN  IF it = Len(c.array) \/ At(c.array, it) # low
               THEN LET c1 == [c EXCEPT !.array = InsertAt(c.array, it, low)]
                    IN  IF Len(c1.array) > ARRAY_MAX_SIZE
                        THEN convert_to_bitmap(c1) ELSE c1
               ELSE c
      [] c.type = Bitmap -> [c EXCEPT !.bitmap = bitmap_set(c.bitmap, low)]
      [] c.type = Run -> Chunk_optimize(Chunk_insert(convert_to_array(c), low))
      [] OTHER -> c

\* a plausible slip in Chunk_remove: a thinned bitmap is never converted
RECURSIVE Chunk_remove_no_demote(_, _)
Chunk_remove_no_demote(c, low) ==
    CASE c.type = Array ->
           LET it == lower_bound(c.array, low)
           IN  IF it # Len(c.array) /\ At(c.array, it) = low
               THEN [c EXCEPT !.array = EraseAt(c.array, it)]
               ELSE c
      [] c.type = Bitmap -> [c EXCEPT !.bitmap = bitmap_clear(c.bitmap, low)]
      [] c.type = Run -> Chunk_remove_no_demote(convert_to_array(c), low)
      [] OTHER -> c

\* Chunk::remove
RECURSIVE Chunk_remove(_, _)
Chunk_remove(c, low) ==
    CASE c.type = Array ->
           LET it == lower_bound(c.array, low)
           IN  IF it # Len(c.array) /\ At(c.array, it) = low
               THEN [c EXCEPT !.array = EraseAt(c.array, it)]
               ELSE c
      [] c.type = Bitmap ->
           LET c1 == [c EXCEPT !.bitmap = bitmap_clear(c.bitmap, low)]
           IN  IF Chunk_cardinality(c1) <= ARRAY_MAX_SIZE
               THEN convert_to_array(c1) ELSE c1
      [] c.type = Run -> Chunk_remove(convert_to_array(c), low)
      [] OTHER -> c

(***************************************************************************)
(* RoaringBitmap.  A set is its chunks_ vector.                            *)
(***************************************************************************)
\* x >> 16 and x & 0xFFFF
HighOf(x) == (x \div BITMAP_SIZE) % UINT16_MOD
LowOf(x) == x % BITMAP_SIZE

\* a plausible slip in chunk_lower_bound: the first chunk with a greater key
chunk_upper_bound(chunks, key) ==
    Cardinality({i \in 1..Len(chunks) : chunks[i].key <= key})

\* std::lower_bound over the chunks by key
chunk_lower_bound(chunks, key) ==
    Cardinality({i \in 1..Len(chunks) : chunks[i].key < key})

\* find_chunk: the index of the chunk with this key, OOB (nullptr) if none
find_chunk(chunks, key) ==
    LET it == chunk_lower_bound(chunks, key)
    IN  IF it # Len(chunks) /\ At(chunks, it).key = key THEN it ELSE OOB

\* find_or_create_chunk: the chunks with a chunk for the key
find_or_create_chunk(chunks, key) ==
    LET it == chunk_lower_bound(chunks, key)
    IN  IF it # Len(chunks) /\ At(chunks, it).key = key THEN chunks
        ELSE InsertAt(chunks, it, Chunk(key))

\* RoaringBitmap::contains
contains(chunks, x) ==
    LET chunk == find_chunk(chunks, HighOf(x))
    IN  chunk # OOB /\ Chunk_contains(At(chunks, chunk), LowOf(x))

\* RoaringBitmap::insert
insert(chunks, x) ==
    LET with == find_or_create_chunk(chunks, HighOf(x))
        it == chunk_lower_bound(with, HighOf(x))
    IN  Put(with, it, Chunk_insert(At(with, it), LowOf(x)))

\* a plausible slip in remove: the emptied chunk is kept
remove_keep_empty(chunks, x) ==
    LET it == chunk_lower_bound(chunks, HighOf(x))
    IN  IF it # Len(chunks) /\ At(chunks, it).key = HighOf(x)
        THEN Put(chunks, it, Chunk_remove(At(chunks, it), LowOf(x)))
        ELSE chunks

\* RoaringBitmap::remove
remove(chunks, x) ==
    LET it == chunk_lower_bound(chunks, HighOf(x))
    IN  IF it # Len(chunks) /\ At(chunks, it).key = HighOf(x)
        THEN LET c == Chunk_remove(At(chunks, it), LowOf(x))
             IN  IF Chunk_cardinality(c) = 0 THEN EraseAt(chunks, it)
                 ELSE Put(chunks, it, c)
        ELSE chunks

\* RoaringBitmap::cardinality / size
RECURSIVE cardinality_from(_, _)
cardinality_from(chunks, i) ==
    IF i >= Len(chunks) THEN 0
    ELSE Chunk_cardinality(At(chunks, i)) + cardinality_from(chunks, i + 1)

cardinality(chunks) == cardinality_from(chunks, 0)

\* RoaringBitmap::empty
empty(chunks) == Len(chunks) = 0

\* RoaringBitmap::optimize
optimize(chunks) == [i \in 1..Len(chunks) |-> Chunk_optimize(chunks[i])]

\* RoaringBitmap(std::initializer_list<uint32_t>): insert each, then optimize
RECURSIVE insert_all(_, _, _)
insert_all(chunks, values, i) ==
    IF i >= Len(values) THEN chunks
    ELSE insert_all(insert(chunks, At(values, i)), values, i + 1)

RoaringBitmap(values) == optimize(insert_all(<<>>, values, 0))

\* the word operators of the set algebra
RECURSIVE word_op(_, _, _, _)
word_op(BitOp(_, _), a, b, i) ==
    IF i >= WORD_BITS THEN 0
    ELSE BitOp(BitOf(a, i), BitOf(b, i)) * (2 ^ i) + word_op(BitOp, a, b, i + 1)

or_bit(x, y) == IF x + y > 0 THEN 1 ELSE 0
and_bit(x, y) == x * y
and_not_bit(x, y) == x * (1 - y)

xor_bit(x, y) == (x + y) % 2
\* a plausible slip in word_or: ^= for |=
word_xor(a, b) == word_op(xor_bit, a, b, 0)
\* a plausible slip in word_and: the union's |= left in place
word_and_as_or(a, b) == word_op(or_bit, a, b, 0)

\* merged.bitmap[w] |= other[w]
word_or(a, b) == word_op(or_bit, a, b, 0)
\* intersected.bitmap[w] &= other[w]
word_and(a, b) == word_op(and_bit, a, b, 0)
\* diff.bitmap[w] &= ~other[w]
word_and_not(a, b) == word_op(and_not_bit, a, b, 0)

\* the bitmap of a chunk: its own, or that of a converted copy
bitmap_of(c) == IF c.type = Bitmap THEN c.bitmap ELSE convert_to_bitmap(c).bitmap

\* the chunk the set operations build for two chunks of one key, before it
\* is optimized: Chunk(key) converted to a bitmap, given the first chunk's
\* bitmap, each word combined with the second chunk's
combined(c1, c2, WordOp(_, _)) ==
    LET first == bitmap_of(c1)
        second == bitmap_of(c2)
    IN  [convert_to_bitmap(Chunk(c1.key)) EXCEPT
            !.bitmap = [w \in 1..WORDS_PER_BITMAP |->
                            WordOp(At(first, w - 1), At(second, w - 1))]]

\* RoaringBitmap::union_with
RECURSIVE union_loop(_, _, _, _, _)
union_loop(a, b, i, j, result) ==
    IF i < Len(a) /\ j < Len(b)
    THEN IF At(a, i).key < At(b, j).key
         THEN union_loop(a, b, i + 1, j, Append(result, At(a, i)))
         ELSE IF At(a, i).key > At(b, j).key
         THEN union_loop(a, b, i, j + 1, Append(result, At(b, j)))
         ELSE union_loop(a, b, i + 1, j + 1,
                  Append(result, Chunk_optimize(combined(At(a, i), At(b, j), word_or))))
    ELSE IF i < Len(a) THEN union_loop(a, b, i + 1, j, Append(result, At(a, i)))
    ELSE IF j < Len(b) THEN union_loop(a, b, i, j + 1, Append(result, At(b, j)))
    ELSE result

union_with(a, b) == union_loop(a, b, 0, 0, <<>>)

\* RoaringBitmap::intersect_with
RECURSIVE intersect_loop(_, _, _, _, _)
intersect_loop(a, b, i, j, result) ==
    IF i < Len(a) /\ j < Len(b)
    THEN IF At(a, i).key < At(b, j).key
         THEN intersect_loop(a, b, i + 1, j, result)
         ELSE IF At(a, i).key > At(b, j).key
         THEN intersect_loop(a, b, i, j + 1, result)
         ELSE LET intersected == combined(At(a, i), At(b, j), word_and)
              IN  intersect_loop(a, b, i + 1, j + 1,
                      IF Chunk_cardinality(intersected) > 0
                      THEN Append(result, Chunk_optimize(intersected))
                      ELSE result)
    ELSE result

intersect_with(a, b) == intersect_loop(a, b, 0, 0, <<>>)

\* a plausible slip in difference_skip: <= for < in the key comparison
RECURSIVE difference_skip_equal(_, _, _)
difference_skip_equal(b, j, key) ==
    IF j < Len(b) /\ At(b, j).key <= key THEN difference_skip_equal(b, j + 1, key)
    ELSE j

\* the inner while of difference: skip the chunks of other with smaller keys
RECURSIVE difference_skip(_, _, _)
difference_skip(b, j, key) ==
    IF j < Len(b) /\ At(b, j).key < key THEN difference_skip(b, j + 1, key) ELSE j

\* RoaringBitmap::difference
RECURSIVE difference_loop(_, _, _, _, _)
difference_loop(a, b, i, j, result) ==
    IF i < Len(a)
    THEN LET j1 == difference_skip(b, j, At(a, i).key)
         IN  IF j1 >= Len(b) \/ At(b, j1).key > At(a, i).key
             THEN difference_loop(a, b, i + 1, j1, Append(result, At(a, i)))
             ELSE LET diff == combined(At(a, i), At(b, j1), word_and_not)
                  IN  difference_loop(a, b, i + 1, j1 + 1,
                          IF Chunk_cardinality(diff) > 0
                          THEN Append(result, Chunk_optimize(diff))
                          ELSE result)
    ELSE result

difference(a, b) == difference_loop(a, b, 0, 0, <<>>)

(***************************************************************************)
(* RoaringBitmap serialisation.                                            *)
(***************************************************************************)
(* RoaringBitmap::iterator.  A cursor is chunk_idx, pos_in_chunk, the      *)
(* current value and at_end; in a Run chunk pos_in_chunk is the run index  *)
(* in the high bits and the offset in the run in the low bits.             *)
(***************************************************************************)
\* the while loop over a Bitmap chunk: the first set position from pos on,
\* BITMAP_SIZE when there is none
RECURSIVE bitmap_next(_, _)
bitmap_next(bitmap, pos) ==
    IF pos >= BITMAP_SIZE THEN pos
    ELSE IF BitOf(At(bitmap, pos \div WORD_BITS), pos % WORD_BITS) = 1 THEN pos
         ELSE bitmap_next(bitmap, pos + 1)

\* a plausible slip in run_next: offset < len, the last value of a run lost
RECURSIVE run_next_strict(_, _, _)
run_next_strict(runs, run_idx, offset) ==
    IF run_idx >= Len(runs) THEN [found |-> FALSE, run_idx |-> run_idx, offset |-> 0]
    ELSE IF offset < At(runs, run_idx)[2]
         THEN [found |-> TRUE, run_idx |-> run_idx, offset |-> offset]
         ELSE run_next_strict(runs, run_idx + 1, 0)

\* the while loop over a Run chunk: the first run from run_idx on that still
\* has a value at offset
RECURSIVE run_next(_, _, _)
run_next(runs, run_idx, offset) ==
    IF run_idx >= Len(runs) THEN [found |-> FALSE, run_idx |-> run_idx, offset |-> 0]
    ELSE IF offset <= At(runs, run_idx)[2]
         THEN [found |-> TRUE, run_idx |-> run_idx, offset |-> offset]
         ELSE run_next(runs, run_idx + 1, 0)

\* the cursor moved to the next chunk
next_chunk(it) == [it EXCEPT !.chunk_idx = @ + 1, !.pos_in_chunk = 0]

\* iterator::advance_to_next
RECURSIVE advance_to_next(_, _)
advance_to_next(chunks, it) ==
    IF it.chunk_idx >= Len(chunks) THEN [it EXCEPT !.at_end = TRUE]
    ELSE LET chunk == At(chunks, it.chunk_idx)
             high == chunk.key * UINT16_MOD
         IN  CASE chunk.type = Array ->
                    IF it.pos_in_chunk < Len(chunk.array)
                    THEN [it EXCEPT !.current_value =
                                        high + At(chunk.array, it.pos_in_chunk)]
                    ELSE advance_to_next(chunks, next_chunk(it))
               [] chunk.type = Bitmap ->
                    LET pos == bitmap_next(chunk.bitmap, it.pos_in_chunk)
                    IN  IF pos < BITMAP_SIZE
                        THEN [it EXCEPT !.pos_in_chunk = pos,
                                        !.current_value = high + (pos % UINT16_MOD)]
                        ELSE advance_to_next(chunks, next_chunk(it))
               [] chunk.type = Run ->
                    LET r == run_next(chunk.runs, it.pos_in_chunk \div UINT16_MOD,
                                      it.pos_in_chunk % UINT16_MOD)
                    IN  IF r.found
                        THEN [it EXCEPT
                                 !.pos_in_chunk = r.run_idx * UINT16_MOD + r.offset,
                                 !.current_value =
                                     high + ((At(chunk.runs, r.run_idx)[1] + r.offset)
                                             % UINT16_MOD)]
                        ELSE advance_to_next(chunks, next_chunk(it))
               [] OTHER -> advance_to_next(chunks, next_chunk(it))

\* iterator(rb, end)
iterator(chunks, is_end) ==
    LET it == [chunk_idx |-> 0, pos_in_chunk |-> 0, current_value |-> 0,
               at_end |-> is_end]
    IN  IF ~is_end /\ Len(chunks) > 0 THEN advance_to_next(chunks, it)
        ELSE [it EXCEPT !.at_end = TRUE]

\* begin() and end()
begin(chunks) == iterator(chunks, FALSE)
end(chunks) == iterator(chunks, TRUE)

\* iterator::operator*
operator_deref(it) == it.current_value

\* iterator::operator++
operator_increment(chunks, it) ==
    IF it.at_end THEN it
    ELSE LET chunk == At(chunks, it.chunk_idx)
             run_idx == it.pos_in_chunk \div UINT16_MOD
             offset == it.pos_in_chunk % UINT16_MOD
         IN  IF chunk.type = Run
             THEN IF offset < At(chunk.runs, run_idx)[2]
                  THEN advance_to_next(chunks,
                           [it EXCEPT !.pos_in_chunk = run_idx * UINT16_MOD + offset + 1])
                  ELSE advance_to_next(chunks,
                           [it EXCEPT !.pos_in_chunk = (run_idx + 1) * UINT16_MOD])
             ELSE advance_to_next(chunks, [it EXCEPT !.pos_in_chunk = @ + 1])

\* iterator::operator== of two cursors over the same set
operator_eq(a, b) ==
    IF a.at_end /\ b.at_end THEN TRUE
    ELSE IF a.at_end \/ b.at_end THEN FALSE
    ELSE a.chunk_idx = b.chunk_idx /\ a.pos_in_chunk = b.pos_in_chunk

(***************************************************************************)
\* width of the container type field
TAG_BITS == 2

Tag_enc(value) == Fixed_encode(TAG_BITS, value)
Tag_dec(src) == Fixed_decode(TAG_BITS, src)

\* one run: start, then length - 1
Run_enc(run) == Fixed16_enc(run[1]) \o Fixed16_enc(run[2])

\* a plausible slip in Run_dec: the two fields read in the other order
Run_dec_swapped(src) ==
    LET len == Fixed16_dec(src)
        start == Fixed16_dec(len.src)
    IN  Ret(<<start.val, len.val>>, start.src)

Run_dec(src) ==
    LET start == Fixed16_dec(src)
        len == Fixed16_dec(start.src)
    IN  Ret(<<start.val, len.val>>, len.src)

\* the body of the chunk loop of RoaringBitmap::encode
Chunk_encode(chunk) ==
    Fixed16_enc(chunk.key) \o Tag_enc(chunk.type)
    \o CASE chunk.type = Array ->
              EliasGamma_encode(Len(chunk.array) % UINT32_MOD)
              \o EncodeEach(Fixed16_enc, chunk.array)
         [] chunk.type = Bitmap -> EncodeEach(Word_enc, chunk.bitmap)
         [] chunk.type = Run ->
              EliasGamma_encode(Len(chunk.runs) % UINT32_MOD)
              \o EncodeEach(Run_enc, chunk.runs)
         [] OTHER -> <<>>

\* RoaringBitmap::encode
RoaringBitmap_encode(chunks) ==
    EliasGamma_encode(Len(chunks) % UINT32_MOD) \o EncodeEach(Chunk_encode, chunks)

\* the body of the chunk loop of RoaringBitmap::decode
Chunk_decode(src) ==
    LET key == Fixed16_dec(src)
        type == Tag_dec(key.src)
        chunk == [key |-> key.val, type |-> type.val, array |-> <<>>,
                  bitmap |-> <<>>, runs |-> <<>>]
    IN  CASE type.val = Array ->
               LET size == EliasGamma_decode(type.src)
                   array == IF ~size.ok THEN size
                            ELSE DecodeEach(Fixed16_dec, size.src, size.val, <<>>)
               IN  IF ~array.ok THEN array
                   ELSE Ret([chunk EXCEPT !.array = array.val], array.src)
          [] type.val = Bitmap ->
               LET bitmap == DecodeEach(Word_dec, type.src, WORDS_PER_BITMAP, <<>>)
               IN  Ret([chunk EXCEPT !.bitmap = bitmap.val], bitmap.src)
          [] type.val = Run ->
               LET num_runs == EliasGamma_decode(type.src)
                   runs == IF ~num_runs.ok THEN num_runs
                           ELSE DecodeEach(Run_dec, num_runs.src, num_runs.val, <<>>)
               IN  IF ~runs.ok THEN runs
                   ELSE Ret([chunk EXCEPT !.runs = runs.val], runs.src)
          [] OTHER -> Ret(chunk, type.src)

\* RoaringBitmap::decode
RoaringBitmap_decode(src) ==
    LET num_chunks == EliasGamma_decode(src)
    IN  IF ~num_chunks.ok THEN num_chunks
        ELSE DecodeEach(Chunk_decode, num_chunks.src, num_chunks.val, <<>>)

(***************************************************************************)
(* The bit vector machine: one SuccinctBitVector, mutated, indexed,        *)
(* queried and serialised.                                                 *)
(***************************************************************************)
VARIABLES
    bits_,          \* SuccinctBitVector::bits_
    num_bits_,      \* SuccinctBitVector::num_bits_
    rank_support_,  \* SuccinctBitVector::rank_support_
    query,          \* the last rank / select call and what it returned
    decoded         \* the vector decode returned for encode of this one

bvVars == <<bits_, num_bits_, rank_support_, query, decoded>>

VARIABLES
    chunks_,        \* RoaringBitmap::chunks_ of the set
    members,        \* the values inserted into the set and not removed since
    other_,         \* chunks_ of a second set, the argument of the set algebra
    other_members,  \* the values inserted into the second set, not removed since
    result_,        \* chunks_ of the set the last set operation returned
    last_op,        \* that operation: "none", "union", "intersect", "difference"
    decoded_set     \* the set decode returned for encode of the set

rbVars == <<chunks_, members, other_, other_members, result_, last_op, decoded_set>>

VARIABLES
    it_,            \* the cursor of the iteration loop running over the set
    yielded,        \* the values that loop has produced so far
    previous        \* the values the last completed loop over the set produced

itVars == <<it_, yielded, previous>>

VARIABLES
    source_         \* the bits of the buffer the last decode call read from

inVars == <<source_>>

VARIABLES
    builder_        \* the build() call in progress: its loop counter and locals

raceVars == <<builder_>>

VARIABLES
    copy_           \* a second vector made from this one, and whether this one
                    \* still exists

cpVars == <<copy_>>
vars == <<bvVars, rbVars, itVars, inVars, raceVars, cpVars>>

\* no second vector was made; this one exists
NoCopy == [bits |-> <<>>, num_bits |-> -1, rank_support |-> BlockRankSupport(0),
           reads |-> "none", source_alive |-> TRUE]

\* no build() call is in progress
NoBuild == [i |-> -1, total_rank |-> 0, superblock_rank |-> 0,
            before |-> BlockRankSupport(0)]

\* no decode call was made since the structures last changed
NoSource == <<-1>>

\* no loop is running / no loop has completed since the set last changed
NoIterator == [chunk_idx |-> -1, pos_in_chunk |-> 0, current_value |-> 0,
               at_end |-> TRUE]
NoPass == <<-1>>

\* a change of the set ends the loops over its former contents
EndIteration ==
    /\ it_' = NoIterator
    /\ yielded' = <<>>
    /\ previous' = NoPass

\* no set decoded / a decode that never returned / a decoded set
NoSet == [state |-> "none", chunks |-> <<>>]
HungSet == [state |-> "hung", chunks |-> <<>>]
DecodedSet(chunks) == [state |-> "decoded", chunks |-> chunks]

\* the second machine's variables before any operation: empty sets
InitSets ==
    /\ chunks_ = <<>>
    /\ members = {}
    /\ other_ = <<>>
    /\ other_members = {}
    /\ result_ = <<>>
    /\ last_op = "none"
    /\ decoded_set = NoSet
    /\ it_ = NoIterator
    /\ yielded = <<>>
    /\ previous = NoPass
    /\ source_ = NoSource
    /\ builder_ = NoBuild
    /\ copy_ = NoCopy

NoQuery == [op |-> "none", arg |-> 0, res |-> 0]
NoVector == [bits |-> <<>>, num_bits |-> -1, rank_support |-> BlockRankSupport(0)]
\* what `decoded` holds when decode never returned
HungVector == [bits |-> <<>>, num_bits |-> -2, rank_support |-> BlockRankSupport(0)]

\* this vector as a value
Self == [bits |-> bits_, num_bits |-> num_bits_, rank_support |-> rank_support_]

\* rebuilding the index would change nothing: it was built from these bits
IndexCurrent == rank_support_ = build(rank_support_, bits_, num_bits_)

\* build_rank_support() ran at least once
IndexBuilt == Len(rank_support_.superblocks) > 0

Init ==
    /\ \E n \in 0..MaxBits :
         \/ \E initial_value \in BOOLEAN, garbage \in {0, MaxBits} :
              /\ bits_ = SuccinctBitVector(n, initial_value)
              /\ num_bits_ = n
              /\ rank_support_ = BlockRankSupport(garbage)
         \/ \E list \in [1..n -> BOOLEAN] :
              LET words == FromList(list, 0, SuccinctBitVector(n, FALSE))
              IN  /\ bits_ = words
                  /\ num_bits_ = n
                  /\ rank_support_ = build(BlockRankSupport(0), words, n)
    /\ query = NoQuery
    /\ decoded = NoVector
    /\ InitSets

Set(pos, value) ==
    /\ pos < num_bits_
    /\ bits_' = set(bits_, pos, value)
    /\ query' = NoQuery
    /\ decoded' = NoVector
    /\ UNCHANGED <<num_bits_, rank_support_>>
    /\ UNCHANGED <<rbVars, itVars>>
    /\ source_' = NoSource
    /\ UNCHANGED <<raceVars, cpVars>>

Reset(pos) ==
    /\ pos < num_bits_
    /\ bits_' = reset(bits_, pos)
    /\ query' = NoQuery
    /\ decoded' = NoVector
    /\ UNCHANGED <<num_bits_, rank_support_>>
    /\ UNCHANGED <<rbVars, itVars>>
    /\ source_' = NoSource
    /\ UNCHANGED <<raceVars, cpVars>>

Flip(pos) ==
    /\ pos < num_bits_
    /\ bits_' = flip(bits_, pos)
    /\ query' = NoQuery
    /\ decoded' = NoVector
    /\ UNCHANGED <<num_bits_, rank_support_>>
    /\ UNCHANGED <<rbVars, itVars>>
    /\ source_' = NoSource
    /\ UNCHANGED <<raceVars, cpVars>>

BuildRankSupport ==
    /\ rank_support_' = build(rank_support_, bits_, num_bits_)
    /\ query' = NoQuery
    /\ decoded' = NoVector
    /\ UNCHANGED <<bits_, num_bits_>>
    /\ UNCHANGED <<rbVars, itVars>>
    /\ source_' = NoSource
    /\ UNCHANGED <<raceVars, cpVars>>

\* rank(pos)
Rank(pos) ==
    /\ query' = [op |-> "rank", arg |-> pos, res |-> rank(rank_support_, bits_, pos)]
    /\ UNCHANGED <<bits_, num_bits_, rank_support_, decoded>>
    /\ UNCHANGED <<rbVars, itVars>>
    /\ UNCHANGED inVars
    /\ UNCHANGED <<raceVars, cpVars>>

\* select(k)
Select(k) ==
    /\ query' = [op |-> "select", arg |-> k, res |-> select(rank_support_, bits_, k)]
    /\ UNCHANGED <<bits_, num_bits_, rank_support_, decoded>>
    /\ UNCHANGED <<rbVars, itVars>>
    /\ UNCHANGED inVars
    /\ UNCHANGED <<raceVars, cpVars>>

\* encode into a buffer, align, decode from a reader over the bytes written
RoundTrip ==
    /\ LET r == decode(BitReader(align(encode(Self))))
       IN  decoded' = IF r.ok THEN r.val ELSE HungVector
    /\ query' = NoQuery
    /\ UNCHANGED <<bits_, num_bits_, rank_support_>>
    /\ UNCHANGED <<rbVars, itVars>>
    /\ source_' = align(encode(Self))
    /\ UNCHANGED <<raceVars, cpVars>>

Next ==
    \/ \E pos \in 0..(MaxBits - 1), value \in BOOLEAN : Set(pos, value)
    \/ \E pos \in 0..(MaxBits - 1) : Reset(pos)
    \/ \E pos \in 0..(MaxBits - 1) : Flip(pos)
    \/ BuildRankSupport
    \/ IndexCurrent /\ \E pos \in 0..(MaxBits + 2) : Rank(pos)
    \/ IndexCurrent /\ \E k \in 0..(MaxBits + 1) : Select(k)
    \/ IndexCurrent /\ RoundTrip

Spec == Init /\ [][Next]_vars

(***************************************************************************)
(* The set machine: one RoaringBitmap built by insert, remove, optimize    *)
(* and clear, and serialised.                                              *)
(***************************************************************************)
\* largest chunk key inserted
MaxKey == 1
\* low values 0..MaxLow (and the largest low value) of chunk 0 are inserted
MaxLow == 6
\* low values 0..MaxOtherLow (and the largest low value) of the other chunks
MaxOtherLow == 2

\* the 32-bit value with this key and low value
ValueOf(key, low) == key * BITMAP_SIZE + low

\* the values the set machine inserts and removes: in every chunk a run of
\* low values from 0 and the last low value
Values ==
    {ValueOf(0, low) : low \in (0..MaxLow) \cup {BITMAP_SIZE - 1}}
    \cup {ValueOf(key, low) : key \in 1..MaxKey,
                              low \in (0..MaxOtherLow) \cup {BITMAP_SIZE - 1}}

\* every value of the chunks 0..MaxKey+1
Universe == 0..(ValueOf(MaxKey + 2, 0) - 1)

\* the bit vector of the first machine, idle in the second and third
IdleVector ==
    /\ bits_ = <<>>
    /\ num_bits_ = 0
    /\ rank_support_ = BlockRankSupport(0)
    /\ query = NoQuery
    /\ decoded = NoVector

InitSet == IdleVector /\ InitSets

Insert(x) ==
    /\ last_op = "none"
    /\ chunks_' = insert(chunks_, x)
    /\ members' = members \cup {x}
    /\ decoded_set' = NoSet
    /\ UNCHANGED <<other_, other_members, result_, last_op>>
    /\ UNCHANGED bvVars
    /\ EndIteration
    /\ source_' = NoSource
    /\ UNCHANGED <<raceVars, cpVars>>

Remove(x) ==
    /\ last_op = "none"
    /\ chunks_' = remove(chunks_, x)
    /\ members' = members \ {x}
    /\ decoded_set' = NoSet
    /\ UNCHANGED <<other_, other_members, result_, last_op>>
    /\ UNCHANGED bvVars
    /\ EndIteration
    /\ source_' = NoSource
    /\ UNCHANGED <<raceVars, cpVars>>

Optimize ==
    /\ last_op = "none"
    /\ chunks_' = optimize(chunks_)
    /\ decoded_set' = NoSet
    /\ UNCHANGED <<members, other_, other_members, result_, last_op>>
    /\ UNCHANGED bvVars
    /\ EndIteration
    /\ source_' = NoSource
    /\ UNCHANGED <<raceVars, cpVars>>

Clear ==
    /\ last_op = "none"
    /\ chunks_' = <<>>
    /\ members' = {}
    /\ decoded_set' = NoSet
    /\ UNCHANGED <<other_, other_members, result_, last_op>>
    /\ UNCHANGED bvVars
    /\ EndIteration
    /\ source_' = NoSource
    /\ UNCHANGED <<raceVars, cpVars>>

\* encode into a buffer, align, decode from a reader over the bytes written
SetRoundTrip ==
    /\ last_op = "none"
    /\ LET r == RoaringBitmap_decode(BitReader(align(RoaringBitmap_encode(chunks_))))
       IN  decoded_set' = IF r.ok THEN DecodedSet(r.val) ELSE HungSet
    /\ UNCHANGED <<chunks_, members, other_, other_members, result_, last_op>>
    /\ UNCHANGED bvVars
    /\ UNCHANGED itVars
    /\ source_' = align(RoaringBitmap_encode(chunks_))
    /\ UNCHANGED <<raceVars, cpVars>>

NextSet ==
    \/ \E x \in Values : Insert(x)
    \/ \E x \in Values : Remove(x)
    \/ Optimize
    \/ Clear
    \/ SetRoundTrip

SpecSet == InitSet /\ [][NextSet]_vars

(***************************************************************************)
(* The set algebra machine: two sets built by insert, remove and optimize, *)
(* combined by union_with, intersect_with and difference; the result may   *)
(* be assigned to the first set.                                           *)
(***************************************************************************)
\* low values 0..MaxAlgLow of chunk 0 are inserted into the two sets
MaxAlgLow == 5

\* the values the algebra machine inserts: a run of low values in chunk 0,
\* the first value of every other chunk
AlgValues ==
    {ValueOf(0, low) : low \in 0..MaxAlgLow} \cup {ValueOf(key, 0) : key \in 1..MaxKey}

InsertOther(x) ==
    /\ last_op = "none"
    /\ other_' = insert(other_, x)
    /\ other_members' = other_members \cup {x}
    /\ UNCHANGED <<chunks_, members, result_, last_op, decoded_set>>
    /\ UNCHANGED bvVars
    /\ UNCHANGED itVars
    /\ UNCHANGED inVars
    /\ UNCHANGED <<raceVars, cpVars>>

RemoveOther(x) ==
    /\ last_op = "none"
    /\ other_' = remove(other_, x)
    /\ other_members' = other_members \ {x}
    /\ UNCHANGED <<chunks_, members, result_, last_op, decoded_set>>
    /\ UNCHANGED bvVars
    /\ UNCHANGED itVars
    /\ UNCHANGED inVars
    /\ UNCHANGED <<raceVars, cpVars>>

OptimizeOther ==
    /\ last_op = "none"
    /\ other_' = optimize(other_)
    /\ UNCHANGED <<chunks_, members, other_members, result_, last_op, decoded_set>>
    /\ UNCHANGED bvVars
    /\ UNCHANGED itVars
    /\ UNCHANGED inVars
    /\ UNCHANGED <<raceVars, cpVars>>

UnionWith ==
    /\ last_op = "none"
    /\ result_' = union_with(chunks_, other_)
    /\ last_op' = "union"
    /\ UNCHANGED <<chunks_, members, other_, other_members, decoded_set>>
    /\ UNCHANGED bvVars
    /\ UNCHANGED itVars
    /\ UNCHANGED inVars
    /\ UNCHANGED <<raceVars, cpVars>>

IntersectWith ==
    /\ last_op = "none"
    /\ result_' = intersect_with(chunks_, other_)
    /\ last_op' = "intersect"
    /\ UNCHANGED <<chunks_, members, other_, other_members, decoded_set>>
    /\ UNCHANGED bvVars
    /\ UNCHANGED itVars
    /\ UNCHANGED inVars
    /\ UNCHANGED <<raceVars, cpVars>>

Difference ==
    /\ last_op = "none"
    /\ result_' = difference(chunks_, other_)
    /\ last_op' = "difference"
    /\ UNCHANGED <<chunks_, members, other_, other_members, decoded_set>>
    /\ UNCHANGED bvVars
    /\ UNCHANGED itVars
    /\ UNCHANGED inVars
    /\ UNCHANGED <<raceVars, cpVars>>

\* the reference result of the last set operation
ReferenceResult ==
    CASE last_op = "union" -> members \cup other_members
      [] last_op = "intersect" -> members \cap other_members
      [] last_op = "difference" -> members \ other_members
      [] OTHER -> {}

\* a = a | b, a = a & b, a = a - b: the result becomes the first set
Assign ==
    /\ last_op # "none"
    /\ chunks_' = result_
    /\ members' = ReferenceResult
    /\ result_' = <<>>
    /\ last_op' = "none"
    /\ UNCHANGED <<other_, other_members, decoded_set>>
    /\ UNCHANGED bvVars
    /\ EndIteration
    /\ UNCHANGED inVars
    /\ UNCHANGED <<raceVars, cpVars>>

NextAlg ==
    \/ \E x \in AlgValues : Insert(x)
    \/ \E x \in AlgValues : Remove(x)
    \/ Optimize
    \/ Clear
    \/ \E x \in AlgValues : InsertOther(x)
    \/ \E x \in AlgValues : RemoveOther(x)
    \/ OptimizeOther
    \/ UnionWith
    \/ IntersectWith
    \/ Difference
    \/ Assign

SpecAlg == InitSet /\ [][NextAlg]_vars

(***************************************************************************)
(* The iteration machine: one set built by insert, remove, optimize and    *)
(* clear, and the loop from begin() to end() that takes the value under   *)
(* the cursor and increments it, run over the set any number of times.     *)
(***************************************************************************)
\* it = begin(): a loop starts
Begin ==
    /\ it_ = NoIterator
    /\ it_' = begin(chunks_)
    /\ yielded' = <<>>
    /\ UNCHANGED previous
    /\ UNCHANGED <<bvVars, rbVars>>
    /\ UNCHANGED inVars
    /\ UNCHANGED <<raceVars, cpVars>>

\* it != end(): the body takes *it, then ++it
Yield ==
    /\ it_ # NoIterator
    /\ ~operator_eq(it_, end(chunks_))
    /\ yielded' = Append(yielded, operator_deref(it_))
    /\ it_' = operator_increment(chunks_, it_)
    /\ UNCHANGED previous
    /\ UNCHANGED <<bvVars, rbVars>>
    /\ UNCHANGED inVars
    /\ UNCHANGED <<raceVars, cpVars>>

\* it == end(): the loop is left
LoopEnd ==
    /\ it_ # NoIterator
    /\ operator_eq(it_, end(chunks_))
    /\ previous' = yielded
    /\ it_' = NoIterator
    /\ yielded' = <<>>
    /\ UNCHANGED <<bvVars, rbVars>>
    /\ UNCHANGED inVars
    /\ UNCHANGED <<raceVars, cpVars>>

NextIter ==
    \/ \E x \in Values : Insert(x)
    \/ \E x \in Values : Remove(x)
    \/ Optimize
    \/ Clear
    \/ Begin
    \/ Yield
    \/ LoopEnd

SpecIter == InitSet /\ [][NextIter]_vars

(***************************************************************************)
(* The decode machine: a bit vector with a built index, or a set built by  *)
(* insert, remove and optimize, is encoded; decode is called on a buffer   *)
(* that ends before the bits decode needs, or on the encoding with the     *)
(* first chunk's type tag overwritten by 3.                                *)
(***************************************************************************)
\* the first n bytes of a buffer
FirstBytes(buf, n) == SubSeq(buf, 1, n * BYTE_BITS)

\* the number of bits decode consumes of the encoding of this vector
VectorBitsNeeded == decode(BitReader(align(encode(Self)))).src.pos

\* the number of bits decode consumes of the encoding of the set
SetBitsNeeded ==
    RoaringBitmap_decode(BitReader(align(RoaringBitmap_encode(chunks_)))).src.pos

\* the encoding of the set with the type tag of its first chunk set to 3
BadTagEncoding ==
    LET buf == align(RoaringBitmap_encode(chunks_))
        tag_at == Len(EliasGamma_encode(Len(chunks_) % UINT32_MOD)) + UINT16_BITS
    IN  [i \in 1..Len(buf) |->
            IF i > tag_at /\ i <= tag_at + TAG_BITS THEN 1 ELSE buf[i]]

\* SuccinctBitVector::decode on the first n bytes of the vector's encoding
TruncatedVectorDecode ==
    /\ IndexCurrent
    /\ \E n \in 0..(CeilDiv(VectorBitsNeeded, BYTE_BITS) - 1) :
         LET input == FirstBytes(align(encode(Self)), n)
             r == decode(BitReader(input))
         IN  /\ source_' = input
             /\ UNCHANGED <<raceVars, cpVars>>
             /\ decoded' = IF r.ok THEN r.val ELSE HungVector
    /\ query' = NoQuery
    /\ UNCHANGED <<bits_, num_bits_, rank_support_>>
    /\ UNCHANGED <<rbVars, itVars>>

\* RoaringBitmap::decode on the first n bytes of the set's encoding
TruncatedSetDecode ==
    /\ \E n \in 0..(CeilDiv(SetBitsNeeded, BYTE_BITS) - 1) :
         LET input == FirstBytes(align(RoaringBitmap_encode(chunks_)), n)
             r == RoaringBitmap_decode(BitReader(input))
         IN  /\ source_' = input
             /\ UNCHANGED <<raceVars, cpVars>>
             /\ decoded_set' = IF r.ok THEN DecodedSet(r.val) ELSE HungSet
    /\ UNCHANGED <<chunks_, members, other_, other_members, result_, last_op>>
    /\ UNCHANGED <<bvVars, itVars>>

\* RoaringBitmap::decode on the encoding with a chunk of type tag 3
BadTagDecode ==
    /\ Len(chunks_) > 0
    /\ LET r == RoaringBitmap_decode(BitReader(BadTagEncoding))
       IN  decoded_set' = IF r.ok THEN DecodedSet(r.val) ELSE HungSet
    /\ source_' = BadTagEncoding
    /\ UNCHANGED <<raceVars, cpVars>>
    /\ UNCHANGED <<chunks_, members, other_, other_members, result_, last_op>>
    /\ UNCHANGED <<bvVars, itVars>>

NextDecode ==
    \/ IdleVector /\ \E x \in AlgValues : Insert(x)
    \/ IdleVector /\ \E x \in AlgValues : Remove(x)
    \/ IdleVector /\ Optimize
    \/ IdleVector /\ TruncatedSetDecode
    \/ IdleVector /\ BadTagDecode
    \/ TruncatedVectorDecode

SpecDecode == Init /\ [][NextDecode]_vars

(***************************************************************************)
(* Reference definitions for the bit vector claims.                        *)
(***************************************************************************)
\* the positions of the set bits of the vector
Ones == {i \in 0..(num_bits_ - 1) : test(bits_, i)}

\* the number of set bits at positions < pos
OnesBelow(pos) == Cardinality({i \in Ones : i < pos})

\* the position of the k-th set bit (0-indexed), for k < Cardinality(Ones)
KthOne(k) == CHOOSE i \in Ones : OnesBelow(i) = k

RankArgs == 0..(MaxBits + 2)
SelectArgs == 0..(MaxBits + 1)

\* C1: with a current index, rank(pos) is the number of set bits at
\* positions < min(pos, num_bits), for every pos; so rank(0) = 0 and
\* rank(pos) for pos >= num_bits is the total population count.
C1_RankCounts ==
    /\ IndexCurrent =>
         \A pos \in RankArgs :
             rank(rank_support_, bits_, pos) = OnesBelow(Min(pos, num_bits_))
    /\ query.op = "rank" => query.res = OnesBelow(Min(query.arg, num_bits_))

\* a rank call past the end of a vector of two superblocks with set bits
C1_Witness ==
    /\ query.op = "rank"
    /\ query.arg > num_bits_
    /\ num_bits_ > SUPERBLOCK_SIZE
    /\ query.res = Cardinality(Ones)
    /\ query.res > 1

\* C2: with a current index, select(k) is the position of the k-th set bit
\* when k < popcount and num_bits otherwise, and never the result of a read
\* outside the word array.
C2_SelectFinds ==
    /\ IndexCurrent =>
         \A k \in SelectArgs :
             select(rank_support_, bits_, k) =
                 IF k < Cardinality(Ones) THEN KthOne(k) ELSE num_bits_
    /\ query.op = "select" =>
         query.res = IF query.arg < Cardinality(Ones) THEN KthOne(query.arg)
                     ELSE num_bits_

\* select(0) found a set bit behind a superblock without any set bit
C2_Witness ==
    /\ query.op = "select"
    /\ query.arg = 0
    /\ query.res >= SUPERBLOCK_SIZE
    /\ query.res < num_bits_

\* C3: with a current index, rank(select(k) + 1) = k + 1 for every
\* k < popcount, and select(rank(i)) = i for every set bit i.
C3_RankSelectInverse ==
    IndexCurrent =>
      /\ \A k \in 0..(Cardinality(Ones) - 1) :
             rank(rank_support_, bits_, select(rank_support_, bits_, k) + 1) = k + 1
      /\ \A i \in Ones :
             select(rank_support_, bits_, rank(rank_support_, bits_, i)) = i

\* select(k) for a k >= 1 returned a position whose rank closes the law
C3_Witness ==
    /\ query.op = "select"
    /\ query.arg >= 1
    /\ query.arg < Cardinality(Ones)
    /\ rank(rank_support_, bits_, query.res + 1) = query.arg + 1

\* C8: the vector decode returns for the encoding of a vector with a current
\* index has the same size, the same bit at every position, and the same
\* rank(pos) and select(k) for every pos and k.
C8_BitVectorRoundTrip ==
    decoded # NoVector =>
      /\ decoded.num_bits = num_bits_
      /\ \A i \in 0..(num_bits_ - 1) : test(decoded.bits, i) = test(bits_, i)
      /\ \A pos \in RankArgs :
             rank(decoded.rank_support, decoded.bits, pos)
                 = rank(rank_support_, bits_, pos)
      /\ \A k \in SelectArgs :
             select(decoded.rank_support, decoded.bits, k)
                 = select(rank_support_, bits_, k)

\* a vector of two superblocks with several set bits was encoded and decoded
C8_Witness ==
    /\ decoded # NoVector
    /\ decoded.num_bits > SUPERBLOCK_SIZE
    /\ Cardinality(Ones) > 1

(***************************************************************************)
(* Reference definitions for the set claims.                               *)
(***************************************************************************)
\* the values a set answers contains for
Elements(chunks) == {y \in Universe : contains(chunks, y)}

\* the keys of the chunks, in order
Keys(chunks) == [i \in 1..Len(chunks) |-> chunks[i].key]

\* the container types of the chunks, in order
Types(chunks) == [i \in 1..Len(chunks) |-> chunks[i].type]

\* some chunk of the set has this container type
HasType(chunks, type) == \E i \in 1..Len(chunks) : chunks[i].type = type

\* C4: after any sequence of insert, remove and optimize from the empty set,
\* contains(y) is true exactly for the values inserted and not removed since,
\* and size() is their number, in every representation.
C4_SetOfValues ==
    /\ Elements(chunks_) = members
    /\ cardinality(chunks_) = Cardinality(members)

\* a set with a Bitmap chunk (an array that grew past the threshold) and a
\* second chunk
C4_Witness ==
    /\ HasType(chunks_, Bitmap)
    /\ Len(chunks_) = MaxKey + 1
    /\ Cardinality(members) > ARRAY_MAX_SIZE + 2

\* C5: A.union_with(B) contains exactly the values in A or in B, its size is
\* the size of the reference union, and A and B are left unchanged.
C5_Union ==
    [][(last_op = "none" /\ last_op' = "union") =>
          /\ Elements(result_') = members \cup other_members
          /\ cardinality(result_') = Cardinality(members \cup other_members)
          /\ chunks_' = chunks_
          /\ other_' = other_]_vars

\* the union of a Run chunk and a Bitmap chunk of one key, and a chunk whose
\* key only the first set has
C5_Witness ==
    /\ last_op = "union"
    /\ Len(chunks_) = 2
    /\ Len(other_) = 1
    /\ chunks_[1].type = Run
    /\ other_[1].type = Bitmap
    /\ chunks_[1].key = other_[1].key
    /\ Len(result_) = 2

\* C6: A.intersect_with(B) contains exactly the values in both A and B and
\* its size is the size of the reference intersection; a chunk whose key only
\* one operand has contributes nothing.
C6_Intersection ==
    last_op = "intersect" =>
      /\ Elements(result_) = members \cap other_members
      /\ cardinality(result_) = Cardinality(members \cap other_members)
      /\ \A i \in 1..Len(result_) :
             /\ find_chunk(chunks_, result_[i].key) # OOB
             /\ find_chunk(other_, result_[i].key) # OOB

\* a non-empty intersection of an Array chunk and a Bitmap chunk, the first
\* set having a chunk the second lacks
C6_Witness ==
    /\ last_op = "intersect"
    /\ Len(chunks_) = 2
    /\ Len(other_) = 1
    /\ chunks_[1].type = Array
    /\ other_[1].type = Bitmap
    /\ Len(result_) = 1
    /\ cardinality(result_) > 1

\* C7: A.difference(B) contains exactly the values in A and not in B and its
\* size is the size of the reference difference; a chunk of A whose key B
\* lacks is kept whole, a chunk only B has contributes nothing.
C7_Difference ==
    last_op = "difference" =>
      /\ Elements(result_) = members \ other_members
      /\ cardinality(result_) = Cardinality(members \ other_members)
      /\ \A i \in 1..Len(chunks_) :
             find_chunk(other_, chunks_[i].key) = OOB =>
                 \E j \in 1..Len(result_) : result_[j] = chunks_[i]
      /\ \A j \in 1..Len(result_) : find_chunk(chunks_, result_[j].key) # OOB

\* a difference where the second set has a chunk before the first set's only
\* chunk and holds that chunk's one value: the scan of the second set skips
\* the earlier key and the emptied chunk is dropped
C7_Witness ==
    /\ last_op = "difference"
    /\ Len(chunks_) = 1
    /\ Len(other_) = 2
    /\ chunks_[1].key = other_[2].key
    /\ Cardinality(other_members) > 2
    /\ Len(result_) = 0
    /\ Cardinality(members) = 1

\* C9: the set decode returns for the encoding of a set has the same chunk
\* keys in the same order, the same container type per chunk, the same
\* membership for every value and the same size.
C9_SetRoundTrip ==
    decoded_set # NoSet =>
      /\ decoded_set.state = "decoded"
      /\ Keys(decoded_set.chunks) = Keys(chunks_)
      /\ Types(decoded_set.chunks) = Types(chunks_)
      /\ Elements(decoded_set.chunks) = Elements(chunks_)
      /\ cardinality(decoded_set.chunks) = cardinality(chunks_)

\* a set of two chunks, the first a Run chunk of two runs, was encoded and
\* decoded
C9_Witness ==
    /\ decoded_set.state = "decoded"
    /\ Len(chunks_) = 2
    /\ chunks_[1].type = Run
    /\ Len(chunks_[1].runs) = 2

\* C10: optimize() changes neither contains(y) for any y nor size(), nor the
\* chunk keys and their order.
C10_OptimizeKeepsContent ==
    LET optimized == optimize(chunks_)
    IN  /\ Elements(optimized) = Elements(chunks_)
        /\ cardinality(optimized) = cardinality(chunks_)
        /\ Keys(optimized) = Keys(chunks_)

\* optimize() turned an array of two runs into a Run chunk, next to a second
\* chunk
C10_Witness ==
    /\ Len(chunks_) = 2
    /\ chunks_[1].type = Run
    /\ Len(chunks_[1].runs) = 2
    /\ optimize(chunks_) = chunks_
    /\ decoded_set = NoSet

(***************************************************************************)
(* Reference definitions for the iteration claim.                          *)
(***************************************************************************)
\* the elements of a finite set of numbers in ascending order
RECURSIVE AscendingSeq(_)
AscendingSeq(S) ==
    IF S = {} THEN <<>>
    ELSE LET least == CHOOSE x \in S : \A y \in S : x <= y
         IN  <<least>> \o AscendingSeq(S \ {least})

\* the last value of chunk 0 and the first value of chunk 1 (65535 and 65536)
LastOfChunk0 == ValueOf(0, BITMAP_SIZE - 1)
FirstOfChunk1 == ValueOf(1, 0)

\* C11: a loop from begin() to end() yields the contained values in
\* ascending order, each once, and reaches end() after exactly size() steps,
\* whatever the chunk types; the last value of chunk 0 is followed directly
\* by the first value of chunk 1; a second loop yields the same sequence.
C11_OrderedIteration ==
    LET all == AscendingSeq(Elements(chunks_))
    IN  /\ it_ # NoIterator =>
              /\ Len(yielded) <= Len(all)
              /\ yielded = SubSeq(all, 1, Len(yielded))
              /\ it_.at_end <=> Len(yielded) = cardinality(chunks_)
              /\ ~it_.at_end => operator_deref(it_) = all[Len(yielded) + 1]
              /\ (it_.at_end /\ previous # NoPass) => yielded = previous
              /\ \A i \in 1..(Len(yielded) - 1) :
                     (yielded[i] = LastOfChunk0 /\ contains(chunks_, FirstOfChunk1))
                         => yielded[i + 1] = FirstOfChunk1
        /\ previous # NoPass => previous = all

\* a second loop has reached end() over a set of a Bitmap chunk and a Run
\* chunk that holds the two values at the chunk boundary
C11_Witness ==
    /\ it_ # NoIterator
    /\ it_.at_end
    /\ previous # NoPass
    /\ Len(yielded) > ARRAY_MAX_SIZE + 2
    /\ Len(chunks_) = 2
    /\ chunks_[1].type = Bitmap
    /\ chunks_[2].type = Run
    /\ contains(chunks_, LastOfChunk0)
    /\ contains(chunks_, FirstOfChunk1)

(***************************************************************************)
(* Reference definitions for the decode claims.                            *)
(***************************************************************************)
\* how the last decode call of a vector ended: the code has no other way out
\* of decode than returning a vector or never returning
VectorOutcome ==
    IF decoded = NoVector THEN "none"
    ELSE IF decoded = HungVector THEN "hung" ELSE "returned"

\* how the last decode call of a set ended
SetOutcome ==
    IF decoded_set = NoSet THEN "none"
    ELSE IF decoded_set = HungSet THEN "hung" ELSE "returned"

\* the buffer decode read ends before the bits decode needs
VectorInputTruncated ==
    /\ VectorOutcome # "none"
    /\ source_ # NoSource
    /\ Len(source_) < VectorBitsNeeded

SetInputTruncated ==
    /\ SetOutcome # "none"
    /\ source_ # NoSource
    /\ Len(source_) < SetBitsNeeded

\* the buffer decode read holds a chunk with type tag 3
SetInputBadTag ==
    /\ SetOutcome # "none"
    /\ Len(chunks_) > 0
    /\ source_ = BadTagEncoding

\* C12: decode of a truncated buffer, or of a buffer with a chunk of type
\* tag 3, does not return a structure as if decoding had succeeded (it
\* reports a failure instead).
C12_MalformedInputNotAccepted ==
    /\ VectorInputTruncated => VectorOutcome # "returned"
    /\ (SetInputTruncated \/ SetInputBadTag) => SetOutcome # "returned"

\* C13: decode of any finite buffer terminates.
C13_DecodeTerminates ==
    /\ VectorOutcome # "hung"
    /\ SetOutcome # "hung"

(***************************************************************************)
(* Reference definitions for the chunk list invariants.                    *)
(***************************************************************************)
\* the low values a chunk stores, read off its representation
Stored(c) ==
    CASE c.type = Array -> {c.array[i] : i \in 1..Len(c.array)}
      [] c.type = Bitmap ->
           {v \in 0..(WORDS_PER_BITMAP * WORD_BITS - 1) :
               BitOf(At(c.bitmap, v \div WORD_BITS), v % WORD_BITS) = 1}
      [] c.type = Run ->
           UNION {c.runs[i][1]..(c.runs[i][1] + c.runs[i][2]) : i \in 1..Len(c.runs)}
      [] OTHER -> {}

\* the three sets of the algebra machine with the values each should hold
SetsAndContents ==
    {<<chunks_, members>>, <<other_, other_members>>}
    \cup (IF last_op = "none" THEN {} ELSE {<<result_, ReferenceResult>>})

\* keys strictly ascending, stored values are members with the chunk's key,
\* arrays strictly ascending
ChunkListOrdered(chunks, content) ==
    /\ \A i \in 1..(Len(chunks) - 1) : chunks[i].key < chunks[i + 1].key
    /\ \A i \in 1..Len(chunks) :
         /\ \A low \in Stored(chunks[i]) : ValueOf(chunks[i].key, low) \in content
         /\ chunks[i].type = Array =>
               \A k \in 1..(Len(chunks[i].array) - 1) :
                   chunks[i].array[k] < chunks[i].array[k + 1]

\* C14: in every reachable state, also in the results of the set algebra,
\* the chunk list is strictly ascending by key, every chunk stores only low
\* values of members with its key, and an Array chunk's array is strictly
\* ascending.
C14_ChunkListInvariant ==
    \A sc \in SetsAndContents : ChunkListOrdered(sc[1], sc[2])

\* a union of two chunks of two sets was stored, one an Array chunk of
\* several values
C14_Witness ==
    /\ last_op = "union"
    /\ Len(result_) = 2
    /\ Len(chunks_) = 2
    /\ chunks_[1].type = Array
    /\ Len(chunks_[1].array) > 2
    /\ Len(other_) = 2

\* no chunk is empty; empty() agrees with size(); one chunk per key in use
NoEmptyChunk(chunks, content) ==
    /\ \A i \in 1..Len(chunks) :
         /\ Chunk_cardinality(chunks[i]) > 0
         /\ Stored(chunks[i]) # {}
    /\ empty(chunks) <=> cardinality(chunks) = 0
    /\ Len(chunks) = Cardinality({HighOf(x) : x \in content})

\* C15: in every reachable state, also in the results of the set algebra,
\* no chunk has cardinality zero, empty() is true exactly when size() is 0,
\* and there are as many chunks as distinct keys among the members.
C15_NoEmptyChunk ==
    \A sc \in SetsAndContents : NoEmptyChunk(sc[1], sc[2])

\* an intersection of a set of one chunk with a set of two chunks that both
\* have a chunk of key 0 and share no value: the empty chunk is dropped
C15_Witness ==
    /\ last_op = "intersect"
    /\ Len(chunks_) = 1
    /\ Len(other_) = 2
    /\ chunks_[1].key = 0
    /\ other_[1].key = 0
    /\ Cardinality(members) > 1
    /\ result_ = <<>>

MaximalRuns(S) ==
    LET starts == {v \in S : v - 1 \notin S}
        last(v) == CHOOSE e \in S : /\ e >= v
                                    /\ e + 1 \notin S
                                    /\ \A x \in v..e : x \in S
        ordered == AscendingSeq(starts)
    IN  [k \in 1..Len(ordered) |-> <<ordered[k], last(ordered[k]) - ordered[k]>>]

\* C18: optimize() turns an Array chunk of n values in r maximal runs into a
\* Run chunk exactly when RUN_BYTES * r < ARRAY_BYTES * n, and then its run
\* list is the r maximal runs as (start, length - 1); otherwise the chunk is
\* left as it is.
C18_ArrayToRun ==
    \A i \in 1..Len(chunks_) :
        LET c == chunks_[i]
            o == optimize(chunks_)[i]
            maximal == MaximalRuns(Stored(c))
        IN  c.type = Array =>
              IF RUN_BYTES * Len(maximal) < ARRAY_BYTES * Len(c.array)
              THEN o.type = Run /\ o.runs = maximal
              ELSE o = c

\* optimize() made a Run chunk of two runs of the first chunk and left the
\* second, two values apart, an Array chunk
C18_Witness ==
    /\ Len(chunks_) = 2
    /\ chunks_[1].type = Run
    /\ Len(chunks_[1].runs) = 2
    /\ chunks_[2].type = Array
    /\ Len(chunks_[2].array) = 2
    /\ optimize(chunks_) = chunks_
    /\ Cardinality(members) > ARRAY_MAX_SIZE

\* C19: optimize() weighs the run encoding of a Bitmap chunk too: a Bitmap
\* chunk whose maximal runs take fewer bytes (RUN_BYTES each) than the
\* BITMAP_BYTES of a bitmap is a Run chunk of those runs after optimize().
C19_BitmapToRun ==
    \A i \in 1..Len(chunks_) :
        LET c == chunks_[i]
            o == optimize(chunks_)[i]
            maximal == MaximalRuns(Stored(c))
        IN  (c.type = Bitmap /\ RUN_BYTES * Len(maximal) < BITMAP_BYTES)
              => (o.type = Run /\ o.runs = maximal)

(***************************************************************************)
(* The frame of the bit vector's mutators.                                 *)
(***************************************************************************)
\* `after` is `before` with bit pos made b and every other bit of every
\* word as it was
OnlyBitChanged(before, after, pos, b) ==
    /\ Len(after) = Len(before)
    /\ test(after, pos) = b
    /\ \A p \in 0..(Len(before) * WORD_BITS - 1) :
         p # pos => test(after, p) = test(before, p)

\* what set, reset and flip make of the words of this vector
MutatorsChangeOneBit ==
    \A pos \in 0..(num_bits_ - 1) :
        /\ \A value \in BOOLEAN :
             OnlyBitChanged(bits_, set(bits_, pos, value), pos, value)
        /\ OnlyBitChanged(bits_, reset(bits_, pos), pos, FALSE)
        /\ OnlyBitChanged(bits_, flip(bits_, pos), pos, ~test(bits_, pos))

\* a step that changes the words changes one bit below num_bits_ and
\* neither num_bits_ nor the index
WordsChangeAlone ==
    bits_' # bits_ =>
        /\ num_bits_' = num_bits_
        /\ rank_support_' = rank_support_
        /\ \E pos \in 0..(num_bits_ - 1) :
             OnlyBitChanged(bits_, bits_', pos, ~test(bits_, pos))

\* a step that changes the index is a build over the unchanged words
IndexChangesInBuild ==
    rank_support_' # rank_support_ =>
        /\ bits_' = bits_
        /\ num_bits_' = num_bits_
        /\ rank_support_' = build(rank_support_, bits_, num_bits_)

\* C20: set(pos, value), reset(pos) and flip(pos) with pos < num_bits_ change
\* bit pos alone (to value, to 0, to its complement) and leave the other
\* bits, num_bits_ and the superblock and block arrays of the index as they
\* were; the index arrays change only when the index is built.
C20_MutationFrame ==
    /\ []MutatorsChangeOneBit
    /\ [][WordsChangeAlone /\ IndexChangesInBuild]_vars

\* an index that was built and then left behind by a mutation of a vector
\* of full length: rebuilding it would change its counts
C20_Witness ==
    /\ num_bits_ = MaxBits
    /\ Len(rank_support_.superblocks) > 0
    /\ Len(rank_support_.blocks) > 0
    /\ rank_support_.num_bits = num_bits_
    /\ build(rank_support_, bits_, num_bits_).blocks # rank_support_.blocks
    /\ build(rank_support_, bits_, num_bits_).superblocks # rank_support_.superblocks

(***************************************************************************)
(* Rank monotonicity.                                                      *)
(***************************************************************************)
\* C21: with an index built from the current bits, rank(i) <= rank(i + 1)
\* for every i, and rank(i + 1) - rank(i) is 1 when i < num_bits and bit i
\* is set and 0 otherwise (also for i >= num_bits - 1, where rank answers
\* with the total).
C21_RankMonotone ==
    IndexCurrent =>
      \A i \in RankArgs :
          LET here == rank(rank_support_, bits_, i)
              next == rank(rank_support_, bits_, i + 1)
          IN  /\ here <= next
              /\ next - here = IF i < num_bits_ /\ test(bits_, i) THEN 1 ELSE 0

\* rank(num_bits) was called on a full-length vector with a current index:
\* rank steps by one over the set last bit and by zero over a clear bit at
\* the start of the second block
C21_Witness ==
    /\ IndexCurrent
    /\ num_bits_ = MaxBits
    /\ query.op = "rank"
    /\ query.arg = num_bits_
    /\ test(bits_, num_bits_ - 1)
    /\ ~test(bits_, BLOCK_SIZE)
    /\ query.res = rank(rank_support_, bits_, num_bits_ - 1) + 1
    /\ rank(rank_support_, bits_, BLOCK_SIZE + 1) = rank(rank_support_, bits_, BLOCK_SIZE)
    /\ query.res > 2

(***************************************************************************)
(* The shape of the word array.                                            *)
(***************************************************************************)
\* the positions of the last word at or beyond num_bits_
PaddingBits == num_bits_..(Len(bits_) * WORD_BITS - 1)

RECURSIVE PopAll(_, _)
\* the population count of all the words from word w on
PopAll(bits, w) ==
    IF w >= Len(bits) THEN 0 ELSE popcountll(At(bits, w)) + PopAll(bits, w + 1)

\* C22: the word array has exactly ceil(num_bits / WORD_BITS) words, none
\* when num_bits = 0, and every bit of the last word at a position >=
\* num_bits is zero, so the population of the words counts no padding bit.
C22_WordArrayShape ==
    /\ Len(bits_) = CeilDiv(num_bits_, WORD_BITS)
    /\ num_bits_ = 0 => bits_ = <<>>
    /\ \A p \in PaddingBits : ~test(bits_, p)
    /\ PopAll(bits_, 0) = Cardinality(Ones)

\* a vector whose last word has padding, mutated in that word after its
\* index was built: the last valid bit is set and the index is stale
C22_Witness ==
    /\ num_bits_ = MaxBits
    /\ PaddingBits # {}
    /\ test(bits_, num_bits_ - 1)
    /\ Len(rank_support_.blocks) > 0
    /\ rank_total(rank_support_) # PopAll(bits_, 0)

(***************************************************************************)
(* The length of the encoded index.                                        *)
(***************************************************************************)
\* the values written to the stream right after a vector
FollowingValues == 0..2

\* what decode makes of the encoding of this vector followed by the
\* Elias-gamma code of v
DecodeBefore(v) == decode(BitReader(encode(Self) \o EliasGamma_encode(v)))

\* C23: the encoded index of a vector with a current index carries one
\* relative-rank field per block, ceil(num_bits / BLOCK_SIZE) of them, the
\* number decode reads; decode consumes exactly the bits encode wrote, and a
\* value encoded right after the vector is decoded correctly after it.
C23_DecodeConsumesEncoding ==
    IndexCurrent =>
      /\ Len(rank_support_.blocks) = CeilDiv(num_bits_, BLOCK_SIZE)
      /\ \A v \in FollowingValues :
           /\ DecodeBefore(v).ok
           /\ DecodeBefore(v).src.pos = Len(encode(Self))
           /\ EliasGamma_decode(DecodeBefore(v).src) = 
                  Ret(v, [buf |-> DecodeBefore(v).src.buf,
                          pos |-> Len(encode(Self)) + Len(EliasGamma_encode(v))])

(***************************************************************************)
(* The representation of the chunks the set algebra builds.                *)
(***************************************************************************)
\* the keys that have a chunk in both operands
MatchingKeys ==
    {chunks_[i].key : i \in 1..Len(chunks_)} \cap {other_[j].key : j \in 1..Len(other_)}

\* C24: every chunk union_with, intersect_with or difference built from a
\* pair of chunks with matching keys is stored in the representation
\* optimize() selects for its contents: optimize() on it changes nothing.
C24_ResultReoptimized ==
    last_op # "none" =>
      \A i \in 1..Len(result_) :
          result_[i].key \in MatchingKeys => Chunk_optimize(result_[i]) = result_[i]

(***************************************************************************)
(* Insert and remove on a Run chunk.                                       *)
(***************************************************************************)
\* the low values insert and remove are given
Lows == 0..MaxLow

\* the run encoding of the values S is smaller than both alternatives
RunEncodingSmaller(S) ==
    /\ RUN_BYTES * Len(MaximalRuns(S)) < ARRAY_BYTES * Cardinality(S)
    /\ RUN_BYTES * Len(MaximalRuns(S)) < BITMAP_BYTES

\* insert(low) on the Run chunk c: the chunk holds the old values and low,
\* is Run again exactly when the run encoding of these is smaller, Bitmap
\* when they are more than ARRAY_MAX_SIZE, Array otherwise
InsertOnRun(c, low) ==
    LET after == Chunk_insert(c, low)
        S == Stored(c) \cup {low}
    IN  /\ Stored(after) = S
        /\ after.type = Run <=> RunEncodingSmaller(S)
        /\ Cardinality(S) > ARRAY_MAX_SIZE => after.type = Bitmap
        /\ (~RunEncodingSmaller(S) /\ Cardinality(S) <= ARRAY_MAX_SIZE)
             => after.type = Array

\* remove(low) on the Run chunk c: an Array chunk of the remaining values,
\* whether or not low was one of them
RemoveOnRun(c, low) ==
    LET after == Chunk_remove(c, low)
    IN  /\ after.type = Array
        /\ after.array = AscendingSeq(Stored(c) \ {low})
        /\ after.runs = <<>>

\* C25: insert(x) on a Run chunk demotes it to Array, inserts and
\* re-optimizes, so the chunk is Run again exactly when the run encoding of
\* the new contents is smaller, Bitmap when the new cardinality exceeds
\* ARRAY_MAX_SIZE, Array otherwise; remove(x) on a Run chunk leaves an Array
\* chunk, also when x was not a member.
C25_RunChunkMutation ==
    \A i \in 1..Len(chunks_) :
        chunks_[i].type = Run =>
          \A low \in Lows :
              InsertOnRun(chunks_[i], low) /\ RemoveOnRun(chunks_[i], low)

(***************************************************************************)
(* One live container per chunk.                                           *)
(***************************************************************************)
\* the tag of the chunk names its only populated container
OneLiveContainer(c) ==
    CASE c.type = Array -> c.bitmap = <<>> /\ c.runs = <<>>
      [] c.type = Bitmap -> /\ Len(c.bitmap) = WORDS_PER_BITMAP
                            /\ c.array = <<>>
                            /\ c.runs = <<>>
      [] c.type = Run -> c.array = <<>> /\ c.bitmap = <<>>
      [] OTHER -> FALSE

\* C26: in every state reachable by insert, remove, optimize and the set
\* algebra, an Array chunk has an empty bitmap and run list, a Bitmap chunk
\* a bitmap of WORDS_PER_BITMAP words and an empty array and run list, and a
\* Run chunk an empty array and bitmap.
C26_OneLiveContainer ==
    \A sc \in SetsAndContents :
        \A i \in 1..Len(sc[1]) : OneLiveContainer(sc[1][i])

\* the intersection of a Bitmap chunk and a Run chunk of the same key was
\* stored as an Array chunk: every conversion has run
C26_Witness ==
    /\ last_op = "intersect"
    /\ Len(chunks_) = 1
    /\ chunks_[1].type = Bitmap
    /\ Len(other_) = 1
    /\ other_[1].type = Run
    /\ Len(result_) = 1
    /\ result_[1].type = Array
    /\ Len(result_[1].array) > 1

(***************************************************************************)
(* The run list of a Run chunk.                                            *)
(***************************************************************************)
\* runs sorted by start, disjoint and not adjacent, each within the chunk
RunsWellFormed(runs) ==
    /\ \A k \in 1..Len(runs) :
         /\ runs[k][1] >= 0
         /\ runs[k][2] >= 0
         /\ runs[k][1] + runs[k][2] <= BITMAP_SIZE - 1
    /\ \A k \in 1..(Len(runs) - 1) :
         runs[k][1] + runs[k][2] + 1 < runs[k + 1][1]

\* C27: in every state reachable by insert, remove, optimize and the set
\* algebra, the run list of every Run chunk is sorted by start, its runs are
\* disjoint and non-adjacent and end within the chunk, and the run encoding
\* is strictly smaller than the array and the bitmap encoding of the chunk.
C27_RunListInvariant ==
    \A sc \in SetsAndContents :
        \A i \in 1..Len(sc[1]) :
            LET c == sc[1][i]
            IN  c.type = Run =>
                  /\ RunsWellFormed(c.runs)
                  /\ c.runs = MaximalRuns(Stored(c))
                  /\ RUN_BYTES * Len(c.runs) < ARRAY_BYTES * Chunk_cardinality(c)
                  /\ RUN_BYTES * Len(c.runs) < BITMAP_BYTES

\* a Run chunk of two runs that an insert into a Run chunk re-optimized or
\* optimize built, and a Run chunk the set algebra copied into its result
C27_Witness ==
    /\ Len(chunks_) >= 1
    /\ chunks_[1].type = Run
    /\ Len(chunks_[1].runs) = 2
    /\ last_op = "union"
    /\ HasType(result_, Run)

(***************************************************************************)
(* Rank over an index that mutations left behind.                          *)
(***************************************************************************)
\* the index was built for this vector at some time, current or not
IndexOfThisVector ==
    /\ rank_support_.num_bits = num_bits_
    /\ Len(rank_support_.superblocks) = CeilDiv(num_bits_, SUPERBLOCK_SIZE) + 1
    /\ Len(rank_support_.blocks) = CeilDiv(num_bits_, BLOCK_SIZE) + 1

\* the set bits now at the positions of pos's block below pos
OnesInBlockBelow(pos) ==
    Cardinality({i \in Ones : i >= (pos \div BLOCK_SIZE) * BLOCK_SIZE /\ i < pos})

\* what rank answers now
RankNow(pos) == rank(rank_support_, bits_, pos)

\* rank reads the stored counts and the current words of pos's block below
\* num_bits, and the stored total from num_bits on
RankMixesStoredAndCurrent ==
    IndexOfThisVector =>
      \A pos \in RankArgs :
          RankNow(pos) =
              IF pos = 0 THEN 0
              ELSE IF pos >= num_bits_
              THEN At(rank_support_.superblocks, CeilDiv(num_bits_, SUPERBLOCK_SIZE))
              ELSE At(rank_support_.superblocks, pos \div SUPERBLOCK_SIZE)
                   + At(rank_support_.blocks, pos \div BLOCK_SIZE)
                   + OnesInBlockBelow(pos)

\* in a vector of one block rank below num_bits counts the current bits
ShortVectorRankIsCurrent ==
    (IndexOfThisVector /\ num_bits_ <= BLOCK_SIZE) =>
      \A pos \in 0..(num_bits_ - 1) : RankNow(pos) = OnesBelow(pos)

\* a rebuild answers for the current bits and keeps nothing of the old index
RebuildRestores ==
    LET fresh == build(rank_support_, bits_, num_bits_)
    IN  /\ fresh = build(BlockRankSupport(0), bits_, num_bits_)
        /\ \A pos \in RankArgs :
             rank(fresh, bits_, pos) = OnesBelow(Min(pos, num_bits_))
        /\ \A k \in SelectArgs :
             select(fresh, bits_, k) =
                 IF k < Cardinality(Ones) THEN KthOne(k) ELSE num_bits_

\* a step that changes the words leaves the stored total alone, and a step
\* that changes the index stores the population of the words it was built
\* from: the stored total is the population at the last build
StoredTotalIsOfLastBuild ==
    /\ (bits_' # bits_ /\ IndexOfThisVector) =>
         rank_total(rank_support_') = rank_total(rank_support_)
    /\ rank_support_' # rank_support_ =>
         rank_total(rank_support_') = Cardinality(Ones)

\* C28: after a mutation without a rebuild, rank(pos) for pos < num_bits is
\* the stored superblock and block counts plus the population of the current
\* words of pos's block, and for pos >= num_bits the stored total of the
\* last build; in a vector of one block rank(pos) below num_bits follows the
\* current bits.  A rebuild makes rank and select answer for the current
\* bits, with nothing left of the old index.
C28_StaleIndex ==
    /\ [](RankMixesStoredAndCurrent /\ ShortVectorRankIsCurrent /\ RebuildRestores)
    /\ [][StoredTotalIsOfLastBuild]_vars

\* a vector of one block whose bits were set after its index was built:
\* rank decreases from num_bits - 1 to num_bits
C28_Witness ==
    /\ IndexOfThisVector
    /\ num_bits_ > 1
    /\ num_bits_ <= BLOCK_SIZE
    /\ RankNow(num_bits_ - 1) > RankNow(num_bits_)

(***************************************************************************)
(* The race machine: build() of one vector taken one loop iteration at a   *)
(* time, with rank and select calls of another thread in between.  The     *)
(* vector is one block longer than a superblock and a block.               *)
(***************************************************************************)
RaceBits == SUPERBLOCK_SIZE + BLOCK_SIZE + 1

\* the positions the mutators are given, one in each block
RacePositions == {0, BLOCK_SIZE, SUPERBLOCK_SIZE, SUPERBLOCK_SIZE + BLOCK_SIZE}

\* the arguments of the racing rank and select calls
RaceRankArgs == {BLOCK_SIZE, SUPERBLOCK_SIZE, SUPERBLOCK_SIZE + BLOCK_SIZE, RaceBits}
RaceSelectArgs == 0..2

\* one iteration of the for loop of build, on the arrays of the index
build_iteration(rs, bits, num_bits, i, total_rank, superblock_rank) ==
    LET bit_start == i * BLOCK_SIZE
        superblock_idx == bit_start \div SUPERBLOCK_SIZE
        new_superblock == (bit_start % SUPERBLOCK_SIZE = 0)
        word_start == bit_start \div WORD_BITS
        word_end == Min((bit_start + BLOCK_SIZE) \div WORD_BITS,
                        CeilDiv(num_bits, WORD_BITS))
        block_rank == PopWords(bits, word_start, word_end)
        relative == IF new_superblock THEN 0 ELSE superblock_rank
    IN  [superblocks |-> IF new_superblock
                         THEN Put(rs.superblocks, superblock_idx,
                                  total_rank % UINT32_MOD)
                         ELSE rs.superblocks,
         blocks |-> Put(rs.blocks, i, relative % UINT16_MOD),
         total_rank |-> total_rank + block_rank,
         superblock_rank |-> relative + block_rank]

\* SuccinctBitVector{false, ..., false} of RaceBits bits: index built
InitRace ==
    /\ bits_ = SuccinctBitVector(RaceBits, FALSE)
    /\ num_bits_ = RaceBits
    /\ rank_support_ = build(BlockRankSupport(0),
                             SuccinctBitVector(RaceBits, FALSE), RaceBits)
    /\ query = NoQuery
    /\ decoded = NoVector
    /\ InitSets

\* a variant of BuildBegin: build fills fresh zeroed arrays, not the old ones
BuildBegin_fresh_arrays ==
    /\ builder_.i = -1
    /\ rank_support_' =
         [superblocks |-> Resize(<<>>,
                                 CeilDiv(num_bits_, SUPERBLOCK_SIZE) + 1),
          blocks |-> Resize(<<>>,
                            CeilDiv(num_bits_, BLOCK_SIZE) + 1),
          num_bits |-> num_bits_]
    /\ builder_' = [i |-> 0, total_rank |-> 0, superblock_rank |-> 0,
                    before |-> rank_support_]
    /\ query' = NoQuery
    /\ UNCHANGED <<bits_, num_bits_, decoded>>
    /\ UNCHANGED <<rbVars, itVars, inVars, cpVars>>

\* build: the assignments and the two resize calls before the loop
BuildBegin ==
    /\ builder_.i = -1
    /\ rank_support_' =
         [superblocks |-> Resize(rank_support_.superblocks,
                                 CeilDiv(num_bits_, SUPERBLOCK_SIZE) + 1),
          blocks |-> Resize(rank_support_.blocks,
                            CeilDiv(num_bits_, BLOCK_SIZE) + 1),
          num_bits |-> num_bits_]
    /\ builder_' = [i |-> 0, total_rank |-> 0, superblock_rank |-> 0,
                    before |-> rank_support_]
    /\ query' = NoQuery
    /\ UNCHANGED <<bits_, num_bits_, decoded>>
    /\ UNCHANGED <<rbVars, itVars, inVars, cpVars>>

\* build: iteration i of the loop
BuildIteration ==
    /\ builder_.i >= 0
    /\ builder_.i < CeilDiv(num_bits_, BLOCK_SIZE)
    /\ LET it == build_iteration(rank_support_, bits_, num_bits_, builder_.i,
                                 builder_.total_rank, builder_.superblock_rank)
       IN  /\ rank_support_' = [rank_support_ EXCEPT
                                   !.superblocks = it.superblocks,
                                   !.blocks = it.blocks]
           /\ builder_' = [builder_ EXCEPT
                              !.i = @ + 1,
                              !.total_rank = it.total_rank,
                              !.superblock_rank = it.superblock_rank]
    /\ query' = NoQuery
    /\ UNCHANGED <<bits_, num_bits_, decoded>>
    /\ UNCHANGED <<rbVars, itVars, inVars, cpVars>>

\* build: the assignment after the loop, and the return
BuildEnd ==
    /\ builder_.i >= 0
    /\ builder_.i >= CeilDiv(num_bits_, BLOCK_SIZE)
    /\ rank_support_' = [rank_support_ EXCEPT
                            !.superblocks =
                                Put(@, CeilDiv(num_bits_, SUPERBLOCK_SIZE),
                                    builder_.total_rank % UINT32_MOD)]
    /\ builder_' = NoBuild
    /\ query' = NoQuery
    /\ UNCHANGED <<bits_, num_bits_, decoded>>
    /\ UNCHANGED <<rbVars, itVars, inVars, cpVars>>

\* rank(pos) of another thread while build is in its loop
RacingRank(pos) ==
    /\ builder_.i >= 0
    /\ query' = [op |-> "rank", arg |-> pos,
                 res |-> rank(rank_support_, bits_, pos)]
    /\ UNCHANGED <<bits_, num_bits_, rank_support_, decoded>>
    /\ UNCHANGED <<rbVars, itVars, inVars, raceVars, cpVars>>

\* select(k) of another thread while build is in its loop
RacingSelect(k) ==
    /\ builder_.i >= 0
    /\ query' = [op |-> "select", arg |-> k,
                 res |-> select(rank_support_, bits_, k)]
    /\ UNCHANGED <<bits_, num_bits_, rank_support_, decoded>>
    /\ UNCHANGED <<rbVars, itVars, inVars, raceVars, cpVars>>

NextRace ==
    \/ builder_.i = -1 /\ \E pos \in RacePositions, value \in BOOLEAN : Set(pos, value)
    \/ BuildBegin
    \/ BuildIteration
    \/ BuildEnd
    \/ \E pos \in RaceRankArgs : RacingRank(pos)
    \/ \E k \in RaceSelectArgs : RacingSelect(k)

SpecRace == InitRace /\ [][NextRace]_vars

\* the index the build in progress started from, and the one it will leave
IndexBefore == builder_.before
IndexAfter == build(builder_.before, bits_, num_bits_)

\* what the racing call would have returned from the index rs
AnswerFrom(rs) ==
    IF query.op = "rank" THEN rank(rs, bits_, query.arg)
    ELSE select(rs, bits_, query.arg)

\* the entries the loop has passed hold the new counts, the others the old
PartlyRewritten ==
    builder_.i >= 0 =>
      /\ \A b \in 0..(Len(rank_support_.blocks) - 1) :
           At(rank_support_.blocks, b) =
               IF b < builder_.i THEN At(IndexAfter.blocks, b)
               ELSE At(Resize(IndexBefore.blocks, Len(rank_support_.blocks)), b)
      /\ \A s \in 0..(Len(rank_support_.superblocks) - 1) :
           At(rank_support_.superblocks, s) =
               IF s * BLOCKS_PER_SUPERBLOCK < builder_.i
               THEN At(IndexAfter.superblocks, s)
               ELSE At(Resize(IndexBefore.superblocks,
                              Len(rank_support_.superblocks)), s)

\* a step of build changes neither the words nor num_bits, and its last
\* step leaves the index build() returns
BuildStepFrame ==
    builder_' # builder_ =>
      /\ bits_' = bits_
      /\ num_bits_' = num_bits_
      /\ (builder_'.i = -1 => rank_support_' = IndexAfter)

\* C29: build_index() leaves every bit and num_bits unchanged and rewrites
\* the superblock and block arrays entry by entry in place: while it runs
\* the index holds new counts in the entries its loop has passed and old
\* ones in the rest, and that is the index a rank or select call made in
\* between reads.
C29_BuildNotAtomic ==
    /\ []PartlyRewritten
    /\ [][BuildStepFrame]_vars

\* a rank call made while build was in its loop, after the bits had changed,
\* returned a value that is neither the old index's answer nor the new one's
C29_Witness ==
    /\ builder_.i >= 0
    /\ IndexBefore # IndexAfter
    /\ query.op = "rank"
    /\ query.res # AnswerFrom(IndexBefore)
    /\ query.res # AnswerFrom(IndexAfter)

(***************************************************************************)
(* The copy machine: a second vector made from this one by the implicit   *)
(* copy or move constructor or by decode, this one then mutated or         *)
(* destroyed, and rank and select asked of the second.  copy_.reads names  *)
(* the word array BlockRankSupport::bits_ of the second vector points to.  *)
(***************************************************************************)
CopyBits == BLOCK_SIZE + 1

\* the arguments of the rank and select calls on the second vector
CopyRankArgs == {1, WORD_BITS, BLOCK_SIZE, CopyBits}
CopySelectArgs == 0..1

\* SuccinctBitVector{...} of CopyBits bits: index built
InitCopy ==
    /\ \E list \in [1..CopyBits -> BOOLEAN] :
         LET words == FromList(list, 0, SuccinctBitVector(CopyBits, FALSE))
         IN  /\ bits_ = words
             /\ num_bits_ = CopyBits
             /\ rank_support_ = build(BlockRankSupport(0), words, CopyBits)
    /\ query = NoQuery
    /\ decoded = NoVector
    /\ InitSets

\* SuccinctBitVector b = a: every member copied, the pointer of the index
\* with them, so it still points to the words of a
CopyConstruct ==
    /\ copy_ = NoCopy
    /\ IndexCurrent
    /\ copy_' = [bits |-> bits_, num_bits |-> num_bits_,
                 rank_support |-> rank_support_,
                 reads |-> "source", source_alive |-> TRUE]
    /\ query' = NoQuery
    /\ UNCHANGED <<bits_, num_bits_, rank_support_, decoded>>
    /\ UNCHANGED <<rbVars, itVars, inVars, raceVars>>

\* SuccinctBitVector b = std::move(a): the word buffer changes owner, the
\* pointer of the index stays on it; a is not used again
MoveConstruct ==
    /\ copy_ = NoCopy
    /\ IndexCurrent
    /\ copy_' = [bits |-> bits_, num_bits |-> num_bits_,
                 rank_support |-> rank_support_,
                 reads |-> "own", source_alive |-> FALSE]
    /\ query' = NoQuery
    /\ UNCHANGED <<bits_, num_bits_, rank_support_, decoded>>
    /\ UNCHANGED <<rbVars, itVars, inVars, raceVars>>

\* b = SuccinctBitVector::decode(encoding of a): the index decode builds
\* points to the words decode read
DecodeConstruct ==
    /\ copy_ = NoCopy
    /\ IndexCurrent
    /\ LET r == decode(BitReader(align(encode(Self))))
       IN  /\ r.ok
           /\ copy_' = [bits |-> r.val.bits, num_bits |-> r.val.num_bits,
                        rank_support |-> r.val.rank_support,
                        reads |-> "own", source_alive |-> TRUE]
    /\ query' = NoQuery
    /\ UNCHANGED <<bits_, num_bits_, rank_support_, decoded>>
    /\ UNCHANGED <<rbVars, itVars, inVars, raceVars>>

\* the first vector goes out of scope: its word buffer is freed
DestroySource ==
    /\ copy_ # NoCopy
    /\ copy_.source_alive
    /\ copy_' = [copy_ EXCEPT !.source_alive = FALSE]
    /\ query' = NoQuery
    /\ UNCHANGED <<bits_, num_bits_, rank_support_, decoded>>
    /\ UNCHANGED <<rbVars, itVars, inVars, raceVars>>

\* what a read through a pointer to a freed buffer may find: the words as
\* they were, or whatever took their place
FreedWords ==
    {bits_,
     [w \in 1..Len(bits_) |-> 0],
     [w \in 1..Len(bits_) |-> WORD_MOD - 1]}

\* the word arrays the index of the second vector may read
WordsRead ==
    IF copy_.reads = "own" THEN {copy_.bits}
    ELSE IF copy_.source_alive THEN {bits_}
    ELSE FreedWords

\* b.rank(pos)
CopyRank(pos) ==
    /\ copy_ # NoCopy
    /\ \E words \in WordsRead :
         query' = [op |-> "rank", arg |-> pos,
                   res |-> rank(copy_.rank_support, words, pos)]
    /\ UNCHANGED <<bits_, num_bits_, rank_support_, decoded>>
    /\ UNCHANGED <<rbVars, itVars, inVars, raceVars, cpVars>>

\* b.select(k)
CopySelect(k) ==
    /\ copy_ # NoCopy
    /\ \E words \in WordsRead :
         query' = [op |-> "select", arg |-> k,
                   res |-> select(copy_.rank_support, words, k)]
    /\ UNCHANGED <<bits_, num_bits_, rank_support_, decoded>>
    /\ UNCHANGED <<rbVars, itVars, inVars, raceVars, cpVars>>

NextCopy ==
    \/ CopyConstruct
    \/ MoveConstruct
    \/ DecodeConstruct
    \/ copy_.source_alive /\ \E pos \in 0..(CopyBits - 1), value \in BOOLEAN :
                                 Set(pos, value)
    \/ DestroySource
    \/ \E pos \in CopyRankArgs : CopyRank(pos)
    \/ \E k \in CopySelectArgs : CopySelect(k)

SpecCopy == InitCopy /\ [][NextCopy]_vars

\* the positions of the set bits of the second vector
CopyOnes == {i \in 0..(copy_.num_bits - 1) : test(copy_.bits, i)}

\* C30: the index of a vector made by copying, moving or decoding a built
\* vector reads the words of that vector itself: its rank and select answer
\* for its own bits, whatever is done later to the vector it was made from.
C30_CopyReadsOwnWords ==
    /\ (copy_ # NoCopy /\ query.op = "rank") =>
         query.res = Cardinality({i \in CopyOnes : i < query.arg})
    /\ (copy_ # NoCopy /\ query.op = "select") =>
         query.res =
             IF query.arg < Cardinality(CopyOnes)
             THEN CHOOSE i \in CopyOnes :
                      Cardinality({j \in CopyOnes : j < i}) = query.arg
             ELSE copy_.num_bits

=============================================================================
